---------------------------- MODULE Spec2Model ----------------------------
(***************************************************************************)
(* The numerology / calendar engine of src/lib/dataProcessing.ts and the   *)
(* batch annotation pipeline of src/components/UpstoxConsole.tsx.          *)
(*                                                                         *)
(* A JavaScript string is a sequence of one-character strings, so that     *)
(* split, includes, parseInt and toString are computed character by        *)
(* character as the code computes them.  A JavaScript number is an integer *)
(* or NaN.                                                                 *)
(***************************************************************************)
EXTENDS Integers, Sequences, FiniteSets, TLC

(***************************************************************************)
(* Bounds of the explored inputs.                                          *)
(***************************************************************************)
MaxDay == 31
MaxMonth == 12
MinYear == 1929
MinRecentYear == 1995
MaxYear == 2031
MinTargetYear == 2024
MaxTargetYear == 2025
MinBatchYear == 2024
MaxBatchYear == 2026
MaxCompanies == 2
MaxRows == 2

(***************************************************************************)
(* JavaScript values.                                                      *)
(***************************************************************************)
\* The number NaN (an integer no computation of the model produces).
NaN == -1000000

\* The value undefined where a string is expected (parts[i] past the end).
Undefined == <<"undefined">>

DigitChars == <<"0", "1", "2", "3", "4", "5", "6", "7", "8", "9">>

IsDigit(c) == c \in {"0", "1", "2", "3", "4", "5", "6", "7", "8", "9"}

DigitVal(c) ==
    CASE c = "0" -> 0 [] c = "1" -> 1 [] c = "2" -> 2 [] c = "3" -> 3 [] c = "4" -> 4
      [] c = "5" -> 5 [] c = "6" -> 6 [] c = "7" -> 7 [] c = "8" -> 8 [] c = "9" -> 9

\* a + b on JavaScript numbers
Plus(a, b) == IF a = NaN \/ b = NaN THEN NaN ELSE a + b

\* a - b on JavaScript numbers
Minus(a, b) == IF a = NaN \/ b = NaN THEN NaN ELSE a - b

\* a < b, a > b, a >= b, a === b on JavaScript numbers: false when either is NaN
Lt(a, b) == a # NaN /\ b # NaN /\ a < b

Gt(a, b) == a # NaN /\ b # NaN /\ a > b

Ge(a, b) == a # NaN /\ b # NaN /\ a >= b

StrictEq(a, b) == a # NaN /\ b # NaN /\ a = b

\* a % b of JavaScript: the sign of the result is the sign of a
JsMod(a, b) == IF a = NaN THEN NaN ELSE IF a >= 0 THEN a % b ELSE 0 - ((0 - a) % b)

(***************************************************************************)
(* String.prototype.includes / split / startsWith, parseInt, toString.     *)
(***************************************************************************)
Includes(s, c) == \E i \in 1..Len(s) : s[i] = c

RECURSIVE SplitFrom(_, _, _, _)
SplitFrom(s, c, i, cur) ==
    IF i > Len(s) THEN <<cur>>
    ELSE IF s[i] = c THEN <<cur>> \o SplitFrom(s, c, i + 1, <<>>)
    ELSE SplitFrom(s, c, i + 1, Append(cur, s[i]))

\* s.split(c) for a one-character separator c
Split(s, c) == SplitFrom(s, c, 1, <<>>)

\* parts[i] with JavaScript's 0-based index i
At(parts, i) == IF i + 1 <= Len(parts) THEN parts[i + 1] ELSE Undefined

IsSpace(c) == c = " "

RECURSIVE SkipSpaces(_)
SkipSpaces(s) == IF Len(s) > 0 /\ IsSpace(s[1]) THEN SkipSpaces(Tail(s)) ELSE s

RECURSIVE DigitsValue(_, _, _)
\* the value of the longest prefix of decimal digits of s; NaN when it is empty
DigitsValue(s, acc, seen) ==
    IF Len(s) > 0 /\ IsDigit(s[1])
    THEN DigitsValue(Tail(s), acc * 10 + DigitVal(s[1]), TRUE)
    ELSE IF seen THEN acc ELSE NaN

\* parseInt(s) with no radix, for inputs without a 0x prefix
parseInt(s) ==
    LET t == SkipSpaces(s)
        neg == Len(t) > 0 /\ t[1] = "-"
        u == IF Len(t) > 0 /\ (t[1] = "-" \/ t[1] = "+") THEN Tail(t) ELSE t
        v == DigitsValue(u, 0, FALSE)
    IN IF v = NaN THEN NaN ELSE IF neg THEN 0 - v ELSE v

RECURSIVE NatToString(_)
NatToString(n) ==
    IF n < 10 THEN <<DigitChars[n + 1]>>
    ELSE Append(NatToString(n \div 10), DigitChars[(n % 10) + 1])

\* Number.prototype.toString()
toString(n) ==
    IF n = NaN THEN <<"N", "a", "N">>
    ELSE IF n < 0 THEN <<"-">> \o NatToString(0 - n)
    ELSE NatToString(n)

(***************************************************************************)
(* The master-number aware digit reduction (lines 170-178, repeated at     *)
(* 218-226 and 254-262).                                                   *)
(***************************************************************************)
masterNumbers == {11, 22, 28, 33, 20}

\* the totals the loop is stepped from: -MaxNegativeTotal..MaxTotal and NaN
MaxTotal == 199
MaxNegativeTotal == 2
\* more iterations than any of these totals needs
MaxLoopSteps == 5

RECURSIVE AddDigits_Weighted(_, _)
\* AddDigits with each digit multiplied by its place, counted from the end
AddDigits_Weighted(total, str) ==
    IF Len(str) = 0 THEN total
    ELSE AddDigits_Weighted(
             Plus(total, IF parseInt(<<str[1]>>) = NaN THEN NaN
                         ELSE parseInt(<<str[1]>>) * Len(str)),
             Tail(str))

RECURSIVE AddDigits(_, _)
\* for (const digit of str) total += parseInt(digit)
AddDigits(total, str) ==
    IF Len(str) = 0 THEN total
    ELSE AddDigits(Plus(total, parseInt(<<str[1]>>)), Tail(str))

\* DigitSumStep leaving a total that ends in 0 as it is
DigitSumStep_KeepsTens(total) ==
    IF total # NaN /\ total % 10 = 0 THEN total ELSE AddDigits(0, toString(total))

\* total.toString().split('').reduce((sum, d) => sum + parseInt(d), 0)
DigitSumStep(total) == AddDigits(0, toString(total))

RECURSIVE ReduceLoop_Above10(_)
\* ReduceLoop with the loop condition total > 10
ReduceLoop_Above10(total) ==
    IF Gt(total, 10)
    THEN LET t == DigitSumStep(total)
         IN IF t \in masterNumbers THEN t ELSE ReduceLoop_Above10(t)
    ELSE total

RECURSIVE ReduceLoop(_)
\* while (total > 9) { total = digit sum; if master return total }  return total
ReduceLoop(total) ==
    IF Gt(total, 9)
    THEN LET t == DigitSumStep(total)
         IN IF t \in masterNumbers THEN t ELSE ReduceLoop(t)
    ELSE total

\* ReduceTotal without the check of line 171 before the loop
ReduceTotal_NoFirstCheck(total) == ReduceLoop(total)

\* if (masterNumbers.includes(total)) return total; then the loop
ReduceTotal(total) == IF total \in masterNumbers THEN total ELSE ReduceLoop(total)

(***************************************************************************)
(* calculateLifePath                                                       *)
(***************************************************************************)
\* const parts = dateStr.includes('/') ? dateStr.split('/') : dateStr.split('-')
DateParts(dateStr) ==
    IF Includes(dateStr, "/") THEN Split(dateStr, "/") ELSE Split(dateStr, "-")

\* parts[2].toString() raises a TypeError when parts[2] is undefined
Thrown == [kind |-> "throw", value |-> 0, local |-> 0]

\* a normal return of v; local is the call's local total, chineseYear or
\* yearToUse
Returned(v, local) == [kind |-> "return", value |-> v, local |-> local]

\* LifePathOfParts adding the year as a number instead of digit by digit
LifePathOfParts_YearAsNumber(parts) ==
    IF Len(parts) < 3 THEN Thrown
    ELSE LET total == Plus(Plus(parseInt(parts[1]), parseInt(parts[2])), parseInt(parts[3]))
         IN Returned(ReduceTotal(total), total)

\* lines 165-178: day + month, plus each digit of the year token, reduced
LifePathOfParts(parts) ==
    IF Len(parts) < 3 THEN Thrown
    ELSE LET total == AddDigits(Plus(parseInt(parts[1]), parseInt(parts[2])), parts[3])
         IN Returned(ReduceTotal(total), total)

calculateLifePath(dateStr) == LifePathOfParts(DateParts(dateStr))

(***************************************************************************)
(* getChineseZodiac                                                        *)
(***************************************************************************)
Pad2(n) == IF n < 10 THEN <<"0">> \o NatToString(n) ELSE NatToString(n)

\* the entries year: 'MM-DD' of CHINESE_NEW_YEAR_DATES, as <<year, MM, DD>>
CNY_ENTRIES == <<
    <<1930, 1, 30>>, <<1931, 2, 17>>, <<1932, 2, 6>>, <<1933, 1, 26>>, <<1934, 2, 14>>, <<1935, 2, 4>>,
    <<1936, 1, 24>>, <<1937, 2, 11>>, <<1938, 1, 31>>, <<1939, 2, 19>>, <<1940, 2, 8>>, <<1941, 1, 27>>,
    <<1942, 2, 15>>, <<1943, 2, 5>>, <<1944, 1, 25>>, <<1945, 2, 13>>, <<1946, 2, 2>>, <<1947, 1, 22>>,
    <<1948, 2, 10>>, <<1949, 1, 29>>, <<1950, 2, 17>>, <<1951, 2, 6>>, <<1952, 1, 27>>, <<1953, 2, 14>>,
    <<1954, 2, 3>>, <<1955, 1, 24>>, <<1956, 2, 12>>, <<1957, 1, 31>>, <<1958, 2, 18>>, <<1959, 2, 8>>,
    <<1960, 1, 28>>, <<1961, 2, 15>>, <<1962, 2, 5>>, <<1963, 1, 25>>, <<1964, 2, 13>>, <<1965, 2, 2>>,
    <<1966, 1, 21>>, <<1967, 2, 9>>, <<1968, 1, 30>>, <<1969, 2, 17>>, <<1970, 2, 6>>, <<1971, 1, 27>>,
    <<1972, 2, 15>>, <<1973, 2, 3>>, <<1974, 1, 23>>, <<1975, 2, 11>>, <<1976, 1, 31>>, <<1977, 2, 18>>,
    <<1978, 2, 7>>, <<1979, 1, 28>>, <<1980, 2, 16>>, <<1981, 2, 5>>, <<1982, 1, 25>>, <<1983, 2, 13>>,
    <<1984, 2, 2>>, <<1985, 2, 20>>, <<1986, 2, 9>>, <<1987, 1, 29>>, <<1988, 2, 17>>, <<1989, 2, 6>>,
    <<1990, 1, 27>>, <<1991, 2, 15>>, <<1992, 2, 4>>, <<1993, 1, 23>>, <<1994, 2, 10>>, <<1995, 1, 31>>,
    <<1996, 2, 19>>, <<1997, 2, 7>>, <<1998, 1, 28>>, <<1999, 2, 16>>, <<2000, 2, 5>>, <<2001, 1, 24>>,
    <<2002, 2, 12>>, <<2003, 2, 1>>, <<2004, 1, 22>>, <<2005, 2, 9>>, <<2006, 1, 29>>, <<2007, 2, 18>>,
    <<2008, 2, 7>>, <<2009, 1, 26>>, <<2010, 2, 14>>, <<2011, 2, 3>>, <<2012, 1, 23>>, <<2013, 2, 10>>,
    <<2014, 1, 31>>, <<2015, 2, 19>>, <<2016, 2, 8>>, <<2017, 1, 28>>, <<2018, 2, 16>>, <<2019, 2, 5>>,
    <<2020, 1, 25>>, <<2021, 2, 12>>, <<2022, 2, 1>>, <<2023, 1, 22>>, <<2024, 2, 10>>, <<2025, 1, 29>>,
    <<2026, 2, 17>>, <<2027, 2, 6>>, <<2028, 1, 26>>, <<2029, 2, 13>>, <<2030, 2, 3>>
>>

\* CHINESE_NEW_YEAR_DATES: year -> the text 'MM-DD'
CHINESE_NEW_YEAR_DATES ==
    [y \in {CNY_ENTRIES[i][1] : i \in 1..Len(CNY_ENTRIES)} |->
        LET e == CNY_ENTRIES[CHOOSE i \in 1..Len(CNY_ENTRIES) : CNY_ENTRIES[i][1] = y]
        IN Pad2(e[2]) \o <<"-">> \o Pad2(e[3])]

CHINESE_ZODIAC_ANIMALS ==
    <<"Rat", "Ox", "Tiger", "Rabbit", "Dragon", "Snake",
      "Horse", "Goat", "Monkey", "Rooster", "Dog", "Pig">>

\* BeforeNewYear counting the Lunar New Year day itself as the old year
BeforeNewYear_Inclusive(day, month, cnyMonth, cnyDay) ==
    Lt(month, cnyMonth) \/ (StrictEq(month, cnyMonth) /\ ~Gt(day, cnyDay))

\* month < cnyMonth || (month === cnyMonth && day < cnyDay)
BeforeNewYear(day, month, cnyMonth, cnyDay) ==
    Lt(month, cnyMonth) \/ (StrictEq(month, cnyMonth) /\ Lt(day, cnyDay))

\* the local chineseYear of getChineseZodiac (lines 150-158)
chineseYear(day, month, year) ==
    IF year \in DOMAIN CHINESE_NEW_YEAR_DATES
    THEN LET cnyParts == Split(CHINESE_NEW_YEAR_DATES[year], "-")
             cnyMonth == parseInt(At(cnyParts, 0))
             cnyDay == parseInt(At(cnyParts, 1))
         IN IF BeforeNewYear(day, month, cnyMonth, cnyDay) THEN year - 1 ELSE year
    ELSE year

\* AnimalOf with the cycle anchored one year late
AnimalOf_Anchor1925(cy) ==
    LET idx == JsMod(Minus(cy, 1925), 12)
    IN IF idx \in 0..11 THEN CHINESE_ZODIAC_ANIMALS[idx + 1] ELSE "undefined"

\* CHINESE_ZODIAC_ANIMALS[(chineseYear - 1924) % 12]; an index that is NaN or
\* negative reads undefined
AnimalOf(cy) ==
    LET idx == JsMod(Minus(cy, 1924), 12)
    IN IF idx \in 0..11 THEN CHINESE_ZODIAC_ANIMALS[idx + 1] ELSE "undefined"

getChineseZodiac(dateStr) ==
    LET parts == DateParts(dateStr)
        cy == chineseYear(parseInt(At(parts, 0)), parseInt(At(parts, 1)),
                          parseInt(At(parts, 2)))
    IN Returned(AnimalOf(cy), cy)

(***************************************************************************)
(* normalizeMonthYear, calculatePersonalYear, calculatePersonalMonth       *)
(***************************************************************************)
\* ExpandYear with the test parseInt(year) <= 50
ExpandYear_UpTo50(year) ==
    IF Len(year) = 2
    THEN IF ~Gt(parseInt(year), 50) /\ parseInt(year) # NaN
         THEN <<"2", "0">> \o year
         ELSE <<"1", "9">> \o year
    ELSE year

\* lines 185-187: a year of two characters gets the century 20 below 50
\* and 19 otherwise
ExpandYear(year) ==
    IF Len(year) = 2
    THEN IF Lt(parseInt(year), 50)
         THEN <<"2", "0">> \o year
         ELSE <<"1", "9">> \o year
    ELSE year

\* MonthAndYear with ' - ' between the parts
MonthAndYear_Dash(month, year) == month \o <<" ", "-", " ">> \o year

\* line 188: parts[0] + ' ' + year
MonthAndYear(month, year) == month \o <<" ">> \o year

normalizeMonthYear(dateStr) ==
    IF Includes(dateStr, "-")
    THEN LET parts == Split(dateStr, "-")
         IN MonthAndYear(parts[1], ExpandYear(parts[2]))
    ELSE dateStr

\* the keys of monthMap, each with its month number
MONTH_MAP_ENTRIES == <<
    <<<<"J","a","n">>, 1>>, <<<<"J","a","n","u","a","r","y">>, 1>>,
    <<<<"F","e","b">>, 2>>, <<<<"F","e","b","r","u","a","r","y">>, 2>>,
    <<<<"M","a","r">>, 3>>, <<<<"M","a","r","c","h">>, 3>>,
    <<<<"A","p","r">>, 4>>, <<<<"A","p","r","i","l">>, 4>>,
    <<<<"M","a","y">>, 5>>,
    <<<<"J","u","n">>, 6>>, <<<<"J","u","n","e">>, 6>>,
    <<<<"J","u","l">>, 7>>, <<<<"J","u","l","y">>, 7>>,
    <<<<"A","u","g">>, 8>>, <<<<"A","u","g","u","s","t">>, 8>>,
    <<<<"S","e","p">>, 9>>, <<<<"S","e","p","t">>, 9>>,
    <<<<"S","e","p","t","e","m","b","e","r">>, 9>>,
    <<<<"O","c","t">>, 10>>, <<<<"O","c","t","o","b","e","r">>, 10>>,
    <<<<"N","o","v">>, 11>>, <<<<"N","o","v","e","m","b","e","r">>, 11>>,
    <<<<"D","e","c">>, 12>>, <<<<"D","e","c","e","m","b","e","r">>, 12>>
>>

\* monthMap[name]; a missing key reads undefined, which every use converts to NaN
monthMap(name) ==
    IF \E i \in 1..Len(MONTH_MAP_ENTRIES) : MONTH_MAP_ENTRIES[i][1] = name
    THEN MONTH_MAP_ENTRIES[CHOOSE i \in 1..Len(MONTH_MAP_ENTRIES) :
                               MONTH_MAP_ENTRIES[i][1] = name][2]
    ELSE NaN

\* yearToUse with > in place of >=
yearToUse_Strict(targetMonth, birthMonth, targetYear) ==
    IF Gt(targetMonth, birthMonth) THEN targetYear ELSE Minus(targetYear, 1)

\* const yearToUse = targetMonth >= birthMonth ? targetYear : targetYear - 1
yearToUse(targetMonth, birthMonth, targetYear) ==
    IF Ge(targetMonth, birthMonth) THEN targetYear ELSE Minus(targetYear, 1)

\* PersonalYearTotal with the target month added, as in the personal month
PersonalYearTotal_WithMonth(birthDay, birthMonth, targetMonth, ytu) ==
    AddDigits(Plus(Plus(birthDay, birthMonth), targetMonth), toString(ytu))

\* PersonalMonthTotal without the target month, as in the personal year
PersonalMonthTotal_NoMonth(birthDay, birthMonth, targetMonth, ytu) ==
    AddDigits(Plus(birthDay, birthMonth), toString(ytu))

\* let total = birthDay + birthMonth; plus the digits of yearToUse
PersonalYearTotal(birthDay, birthMonth, targetMonth, ytu) ==
    AddDigits(Plus(birthDay, birthMonth), toString(ytu))

\* let total = birthDay + birthMonth + targetMonth; plus the digits of yearToUse
PersonalMonthTotal(birthDay, birthMonth, targetMonth, ytu) ==
    AddDigits(Plus(Plus(birthDay, birthMonth), targetMonth), toString(ytu))

calculatePersonalYear(incorporationDateStr, targetMonthYear) ==
    LET incParts == DateParts(incorporationDateStr)
        birthDay == parseInt(At(incParts, 0))
        birthMonth == parseInt(At(incParts, 1))
        targetParts == Split(normalizeMonthYear(targetMonthYear), " ")
        targetMonth == monthMap(At(targetParts, 0))
        targetYear == parseInt(At(targetParts, 1))
        ytu == yearToUse(targetMonth, birthMonth, targetYear)
    IN Returned(ReduceTotal(PersonalYearTotal(birthDay, birthMonth, targetMonth, ytu)), ytu)

calculatePersonalMonth(incorporationDateStr, targetMonthYear) ==
    LET incParts == DateParts(incorporationDateStr)
        birthDay == parseInt(At(incParts, 0))
        birthMonth == parseInt(At(incParts, 1))
        targetParts == Split(normalizeMonthYear(targetMonthYear), " ")
        targetMonth == monthMap(At(targetParts, 0))
        targetYear == parseInt(At(targetParts, 1))
        ytu == yearToUse(targetMonth, birthMonth, targetYear)
    IN Returned(ReduceTotal(PersonalMonthTotal(birthDay, birthMonth, targetMonth, ytu)), ytu)

(***************************************************************************)
(* parseStockCSV                                                           *)
(***************************************************************************)
StartsWith(s, p) == Len(s) >= Len(p) /\ SubSeq(s, 1, Len(p)) = p

RECURSIVE TrimEnd(_)
TrimEnd(s) ==
    IF Len(s) > 0 /\ IsSpace(s[Len(s)]) THEN TrimEnd(SubSeq(s, 1, Len(s) - 1)) ELSE s

\* String.prototype.trim()
Trim(s) == TrimEnd(SkipSpaces(s))

\* the value null of currentStock and currentIncDate
Null == <<"null">>

\* the truthiness of a string-or-null value
Truthy(s) == s # Null /\ s # Undefined /\ Len(s) > 0

COMPANY_NAME_PREFIX ==
    <<"C", "o", "m", "p", "a", "n", "y", " ", "N", "a", "m", "e">>

MONTHLY_BREAKDOWN_PREFIX ==
    <<"M", "o", "n", "t", "h", "l", "y", " ", "B", "r", "e", "a", "k", "d",
      "o", "w", "n">>

DATE_OPEN_CLOSE_PREFIX ==
    <<"D", "a", "t", "e", ",", "O", "p", "e", "n", ",", "C", "l", "o", "s",
      "e">>

\* line.startsWith('Company Name') || ... (lines 56-58)
IsHeaderLine(line) ==
    \/ StartsWith(line, COMPANY_NAME_PREFIX)
    \/ StartsWith(line, MONTHLY_BREAKDOWN_PREFIX)
    \/ StartsWith(line, DATE_OPEN_CLOSE_PREFIX)

monthNames ==
    <<<<"J","a","n">>, <<"F","e","b">>, <<"M","a","r">>, <<"A","p","r">>,
      <<"M","a","y">>, <<"J","u","n">>, <<"J","u","l">>, <<"A","u","g">>,
      <<"S","e","p">>, <<"O","c","t">>, <<"N","o","v">>, <<"D","e","c">>>>

\* the test of lines 65-67: the second field holds a '/' or a '-' and splits
\* into three parts on one of them
IsCompanyLine(parts) ==
    /\ Len(parts) >= 2
    /\ Includes(parts[2], "/") \/ Includes(parts[2], "-")
    /\ Len(Split(parts[2], "/")) = 3 \/ Len(Split(parts[2], "-")) = 3

\* the test of line 82
IsMonthlyLine(parts) ==
    /\ Len(parts) >= 5
    /\ \E i \in 1..Len(monthNames) : StartsWith(parts[1], monthNames[i])

\* the object pushed at lines 83-90
MonthlyRow(parts) ==
    [date |-> Trim(parts[1]), open |-> Trim(parts[2]), close |-> Trim(parts[3]),
     high |-> Trim(parts[4]), low |-> Trim(parts[5]),
     changePct |-> IF Len(parts) >= 6 /\ Len(parts[6]) > 0 THEN Trim(parts[6]) ELSE <<>>]

\* stocks with the current block pushed, when it has a name and rows
PushCurrent(st) ==
    IF Truthy(st.currentStock) /\ Len(st.monthlyData) > 0
    THEN Append(st.stocks, [stock |-> st.currentStock,
                            incorporationDate |-> st.currentIncDate,
                            monthlyData |-> st.monthlyData])
    ELSE st.stocks

\* one iteration of the loop of lines 52-92
ParseLine(st, line) ==
    IF IsHeaderLine(line) THEN st
    ELSE LET parts == Split(line, ",")
         IN IF IsCompanyLine(parts)
            THEN [stocks |-> PushCurrent(st), currentStock |-> Trim(parts[1]),
                  currentIncDate |-> Trim(parts[2]), monthlyData |-> <<>>]
            ELSE IF IsMonthlyLine(parts)
            THEN [st EXCEPT !.monthlyData = Append(@, MonthlyRow(parts))]
            ELSE st

RECURSIVE ParseLines(_, _, _)
ParseLines(lines, i, st) ==
    IF i > Len(lines) THEN st ELSE ParseLines(lines, i + 1, ParseLine(st, lines[i]))

\* csvContent.split('\n').map(l => l.trim()).filter(l => l), on the lines of
\* the content
TrimmedLines(rawLines) ==
    SelectSeq([i \in 1..Len(rawLines) |-> Trim(rawLines[i])], LAMBDA l : Len(l) > 0)

\* parseStockCSV of the content whose lines are rawLines
parseStockCSV(rawLines) ==
    PushCurrent(ParseLines(TrimmedLines(rawLines), 1,
        [stocks |-> <<>>, currentStock |-> Null, currentIncDate |-> Null,
         monthlyData |-> <<>>]))

(***************************************************************************)
(* processNumerology: the values of one output row                         *)
(***************************************************************************)
NOT_AVAILABLE == <<"N", "o", "t", " ", "A", "v", "a", "i", "l", "a", "b", "l", "e">>

\* !incorporationDate || incorporationDate === 'Not Available'
SkipsCompany(incorporationDate) ==
    ~Truthy(incorporationDate) \/ incorporationDate = NOT_AVAILABLE

\* `15/${monthRow.date.split(' ')[0]}/${monthRow.date.split(' ')[1]}`
MonthZodiacDate(date) ==
    <<"1", "5", "/">> \o At(Split(date, " "), 0) \o <<"/">> \o At(Split(date, " "), 1)

\* OutputRow with the personal year and the personal month exchanged
OutputRow_Exchanged(stock, incorporationDate, companyZodiac, lifePathNum, monthRow) ==
    [Stock |-> stock,
     Incorporation_Date |-> incorporationDate,
     Company_Chinese_Zodiac |-> companyZodiac,
     Life_Path |-> lifePathNum,
     Month_Year |-> normalizeMonthYear(monthRow.date),
     Month_Chinese_Zodiac |-> getChineseZodiac(MonthZodiacDate(monthRow.date)).value,
     Personal_Year |-> calculatePersonalMonth(incorporationDate, monthRow.date).value,
     Personal_Month |-> calculatePersonalYear(incorporationDate, monthRow.date).value,
     Open |-> monthRow.open, Close |-> monthRow.close, High |-> monthRow.high,
     Low |-> monthRow.low, Change_Pct |-> monthRow.changePct]

\* the row pushed at line 442
OutputRow(stock, incorporationDate, companyZodiac, lifePathNum, monthRow) ==
    [Stock |-> stock,
     Incorporation_Date |-> incorporationDate,
     Company_Chinese_Zodiac |-> companyZodiac,
     Life_Path |-> lifePathNum,
     Month_Year |-> normalizeMonthYear(monthRow.date),
     Month_Chinese_Zodiac |-> getChineseZodiac(MonthZodiacDate(monthRow.date)).value,
     Personal_Year |-> calculatePersonalYear(incorporationDate, monthRow.date).value,
     Personal_Month |-> calculatePersonalMonth(incorporationDate, monthRow.date).value,
     Open |-> monthRow.open, Close |-> monthRow.close, High |-> monthRow.high,
     Low |-> monthRow.low, Change_Pct |-> monthRow.changePct]

(***************************************************************************)
(* processNumerology: the text of the output table (lines 448-456), as the *)
(* sequence of its lines.                                                  *)
(***************************************************************************)
outputHeaders ==
    <<<<"S", "t", "o", "c", "k">>,
      <<"I", "n", "c", "o", "r", "p", "o", "r", "a", "t", "i", "o", "n", "_", "D", "a", "t", "e">>,
      <<"C", "o", "m", "p", "a", "n", "y", "_", "C", "h", "i", "n", "e", "s", "e", "_", "Z", "o", "d", "i", "a", "c">>,
      <<"L", "i", "f", "e", "_", "P", "a", "t", "h">>,
      <<"M", "o", "n", "t", "h", "_", "Y", "e", "a", "r">>,
      <<"M", "o", "n", "t", "h", "_", "C", "h", "i", "n", "e", "s", "e", "_", "Z", "o", "d", "i", "a", "c">>,
      <<"P", "e", "r", "s", "o", "n", "a", "l", "_", "Y", "e", "a", "r">>,
      <<"P", "e", "r", "s", "o", "n", "a", "l", "_", "M", "o", "n", "t", "h">>,
      <<"O", "p", "e", "n">>,
      <<"C", "l", "o", "s", "e">>,
      <<"H", "i", "g", "h">>,
      <<"L", "o", "w">>,
      <<"C", "h", "a", "n", "g", "e", "_", "%">>>>

\* the characters of an animal name
AnimalText(a) ==
    CASE a = "Rat" -> <<"R", "a", "t">>
      [] a = "Ox" -> <<"O", "x">>
      [] a = "Tiger" -> <<"T", "i", "g", "e", "r">>
      [] a = "Rabbit" -> <<"R", "a", "b", "b", "i", "t">>
      [] a = "Dragon" -> <<"D", "r", "a", "g", "o", "n">>
      [] a = "Snake" -> <<"S", "n", "a", "k", "e">>
      [] a = "Horse" -> <<"H", "o", "r", "s", "e">>
      [] a = "Goat" -> <<"G", "o", "a", "t">>
      [] a = "Monkey" -> <<"M", "o", "n", "k", "e", "y">>
      [] a = "Rooster" -> <<"R", "o", "o", "s", "t", "e", "r">>
      [] a = "Dog" -> <<"D", "o", "g">>
      [] a = "Pig" -> <<"P", "i", "g">>

\* row[header], by the position of the header in outputHeaders
RowValue(row, k) ==
    CASE k = 1 -> row.Stock
      [] k = 2 -> row.Incorporation_Date
      [] k = 3 -> row.Company_Chinese_Zodiac
      [] k = 4 -> row.Life_Path
      [] k = 5 -> row.Month_Year
      [] k = 6 -> row.Month_Chinese_Zodiac
      [] k = 7 -> row.Personal_Year
      [] k = 8 -> row.Personal_Month
      [] k = 9 -> row.Open
      [] k = 10 -> row.Close
      [] k = 11 -> row.High
      [] k = 12 -> row.Low
      [] k = 13 -> row.Change_Pct

\* the positions of the columns that hold an animal name, and a number
ZodiacColumns == {3, 6}

NumberColumns == {4, 7, 8}

\* (row[header] || '').toString(): undefined, NaN, 0 and '' give ''
ValueText(row, k) ==
    LET val == RowValue(row, k)
    IN IF k \in ZodiacColumns
       THEN IF val = "undefined" THEN <<>> ELSE AnimalText(val)
       ELSE IF k \in NumberColumns
       THEN IF val = NaN \/ val = 0 THEN <<>> ELSE toString(val)
       ELSE IF Truthy(val) THEN val ELSE <<>>

\* WriteValue without the quotes of line 453
WriteValue_Unquoted(text) == text

\* val.toString().includes(',') ? `"${val}"` : val
WriteValue(text) ==
    IF Includes(text, ",") THEN <<"\"">> \o text \o <<"\"">> ELSE text

RECURSIVE Join(_, _)
\* Array.prototype.join
Join(values, sep) ==
    IF Len(values) = 0 THEN <<>>
    ELSE IF Len(values) = 1 THEN values[1]
    ELSE values[1] \o <<sep>> \o Join(Tail(values), sep)

\* rowValues.join(','), for one row
RowLine(row) ==
    Join([k \in 1..Len(outputHeaders) |-> WriteValue(ValueText(row, k))], ",")

\* csvOutput: the header line, then one line for each row
CsvLines(rows) ==
    <<Join(outputHeaders, ",")>> \o [i \in 1..Len(rows) |-> RowLine(rows[i])]

(***************************************************************************)
(* parseCSVLine and parseCSV (dataProcessing.ts lines 1-41)                *)
(***************************************************************************)
\* the least index of a set of indices of text; Len(text) + 1 when it is empty
LeastIndex(text, found) ==
    IF found = {} THEN Len(text) + 1
    ELSE CHOOSE j \in found : \A k \in found : j <= k

\* the least index from i on at which text holds the character c
IndexFrom(text, i, c) == LeastIndex(text, {j \in i..Len(text) : text[j] = c})

\* the index after the white space that starts at i
AfterSpaces(text, i) == LeastIndex(text, {j \in i..Len(text) : ~IsSpace(text[j])})

\* \s*(?:,|$) at i: the index after the match, 0 when it fails
EndOfField(text, i) ==
    LET t == AfterSpaces(text, i)
    IN IF t > Len(text) THEN t
       ELSE IF text[t] = "," THEN t + 1
       ELSE 0

NoMatch == [matched |-> FALSE, value |-> <<>>, lastIndex |-> 0]

\* '([^']*)' or "([^"]*)" at q, followed by \s*(?:,|$)
QuotedMatch(text, q, quote) ==
    LET r == IndexFrom(text, q + 1, quote)
    IN IF text[q] # quote \/ r > Len(text) \/ EndOfField(text, r + 1) = 0
       THEN NoMatch
       ELSE [matched |-> TRUE, value |-> SubSeq(text, q + 1, r - 1),
             lastIndex |-> EndOfField(text, r + 1)]

\* ([^,\s][^,]*[^,\s]|[^,\s]) at q, followed by \s*(?:,|$): the text up to
\* the next comma, without its trailing white space
UnquotedMatch(text, q) ==
    LET e == IndexFrom(text, q, ",")
    IN IF text[q] = "," \/ IsSpace(text[q]) THEN NoMatch
       ELSE [matched |-> TRUE, value |-> TrimEnd(SubSeq(text, q, e - 1)),
             lastIndex |-> IF e > Len(text) THEN e ELSE e + 1]

\* one attempt of the expression of line 4 at index p: (?!\s*$), \s*, then
\* the three alternatives in their order
MatchAt(text, p) ==
    LET q == AfterSpaces(text, p)
    IN IF q > Len(text) THEN NoMatch
       ELSE IF QuotedMatch(text, q, "'").matched THEN QuotedMatch(text, q, "'")
       ELSE IF QuotedMatch(text, q, "\"").matched THEN QuotedMatch(text, q, "\"")
       ELSE UnquotedMatch(text, q)

RECURSIVE ExecFrom(_, _, _)
\* the loop of lines 7-17: re.exec from lastIndex p tries each index in
\* turn; matches holds the values pushed so far
ExecFrom(text, p, matches) ==
    IF p > Len(text) THEN matches
    ELSE LET m == MatchAt(text, p)
         IN IF m.matched
            THEN ExecFrom(text, m.lastIndex, Append(matches, m.value))
            ELSE ExecFrom(text, p + 1, matches)

parseCSVLine(text) == ExecFrom(text, 1, <<>>)

\* the object of lines 31-34: headers[j] -> currentline[j]; a later column
\* of the same name overwrites an earlier one
LineObject(headers, currentline) ==
    [h \in {headers[j] : j \in 1..Len(headers)} |->
        currentline[CHOOSE j \in 1..Len(headers) :
            /\ headers[j] = h
            /\ \A k \in 1..Len(headers) : headers[k] = h => k <= j]]

\* parseCSV of the text whose lines are rawLines
parseCSV(rawLines) ==
    LET lines == SelectSeq(rawLines, LAMBDA l : Trim(l) # <<>>)
    IN IF Len(lines) = 0 THEN <<>>
       ELSE LET headers == parseCSVLine(lines[1])
                kept == SelectSeq(Tail(lines),
                            LAMBDA l : Len(parseCSVLine(l)) >= Len(headers))
            IN [i \in 1..Len(kept) |-> LineObject(headers, parseCSVLine(kept[i]))]

(***************************************************************************)
(* Rendering of the inputs: the text of a date and of a month/year label   *)
(* built from their components.                                            *)
(***************************************************************************)
\* the year token: the year in full, or its last two digits when short
YearText(y, short) == IF short THEN Pad2(y % 100) ELSE NatToString(y)

\* d, m and the year token written with separator sep; day and month
\* zero-padded when pad
DateText(d, m, y, sep, pad, short) ==
    (IF pad THEN Pad2(d) ELSE NatToString(d)) \o <<sep>> \o
    (IF pad THEN Pad2(m) ELSE NatToString(m)) \o <<sep>> \o YearText(y, short)

\* month tokens that are no key of monthMap
BadMonthTokens == <<<<"J","a","n","x">>, <<"j","a","n">>>>

\* the month tokens of the explored labels: the keys of monthMap, then the bad ones
MonthTokens ==
    [i \in 1..Len(MONTH_MAP_ENTRIES) |-> MONTH_MAP_ENTRIES[i][1]] \o BadMonthTokens

\* the month number a token stands for; 0 for a token that names no month
TokenMonth(k) == IF k <= Len(MONTH_MAP_ENTRIES) THEN MONTH_MAP_ENTRIES[k][2] ELSE 0

\* the label of token k and year y: "Mon YYYY", "Mon-YYYY" or "Mon-YY"
LabelText(k, y, form) ==
    CASE form = "space" -> MonthTokens[k] \o <<" ">> \o NatToString(y)
      [] form = "dash4" -> MonthTokens[k] \o <<"-">> \o NatToString(y)
      [] form = "dash2" -> MonthTokens[k] \o <<"-">> \o Pad2(y % 100)

LabelForms == {"space", "dash4", "dash2"}

(***************************************************************************)
(* The uploaded file: the text exportToCSV writes (lines 338-351) for      *)
(* companies that share one period of consecutive months.                  *)
(***************************************************************************)
EXPORT_HEADER ==
    <<"C", "o", "m", "p", "a", "n", "y", " ", "N", "a", "m", "e", ",", "I",
      "n", "c", "o", "r", "p", "o", "r", "a", "t", "i", "o", "n", " ", "D",
      "a", "t", "e", ",", "C", "u", "r", "r", "e", "n", "t", " ", "P", "r",
      "i", "c", "e", ",", "P", "e", "r", "i", "o", "d", " ", "H", "i", "g",
      "h", ",", "P", "e", "r", "i", "o", "d", " ", "L", "o", "w", ",", "C",
      "h", "a", "n", "g", "e", ",", "C", "h", "a", "n", "g", "e", " ", "%",
      ",", "D", "a", "t", "a", " ", "P", "o", "i", "n", "t", "s">>

BREAKDOWN_HEADER ==
    <<"D", "a", "t", "e", ",", "O", "p", "e", "n", ",", "C", "l", "o", "s",
      "e", ",", "H", "i", "g", "h", ",", "L", "o", "w", ",", "C", "h", "a",
      "n", "g", "e", " ", "%">>

BREAKDOWN_FOR ==
    <<"M", "o", "n", "t", "h", "l", "y", " ", "B", "r", "e", "a", "k", "d",
      "o", "w", "n", " ", "f", "o", "r", " ">>

SUMMARY_FIELDS ==
    <<",", "1", "0", "5", ".", "0", "0", ",", "1", "1", "0", ".", "0", "0",
      ",", "9", "5", ".", "0", "0", ",", "5", ".", "0", "0", ",", "5", ".",
      "0", "0", ",", "2">>

\* the incorporation dates of the explored companies: two dates D/M/YYYY;
\* 'N/A', which fetchStockData records for a symbol without a known date
\* (line 309); the sentinel 'Not Available'; no date at all; and a date
\* with three '-'-separated parts of which the last holds a '/'
IncorporationDates ==
    <<<<"1", "5", "/", "6", "/", "2", "0", "0", "0">>,
      <<"0", "2", "/", "0", "7", "/", "1", "9", "8", "1">>,
      <<"N", "/", "A">>,
      <<"N", "o", "t", " ", "A", "v", "a", "i", "l", "a", "b", "l", "e">>,
      <<>>,
      <<"1", "-", "6", "-", "2", "0", "0", "0", "/", "B">>>>

\* the positions in IncorporationDates of the dates D/M/YYYY
WellFormedDates == {1, 2}

CompanyName(c) == <<"S">> \o NatToString(c)

\* the month and the year of row j of a period that starts at month m0 of y0
RowMonth(m0, j) == ((m0 + j - 2) % 12) + 1

RowYear(m0, y0, j) == y0 + ((m0 + j - 2) \div 12)

MonthYearText(m, y) == monthNames[m] \o <<" ">> \o NatToString(y)

\* a label whose month token starts with the name of month m and is no key
\* of monthMap: "Janx 2024"
OddMonthYearText(m, y) == monthNames[m] \o <<"x", " ">> \o NatToString(y)

\* the label of row j; row `odd` has the odd month token
RowLabel(m0, y0, j, odd) ==
    IF j = odd
    THEN OddMonthYearText(RowMonth(m0, j), RowYear(m0, y0, j))
    ELSE MonthYearText(RowMonth(m0, j), RowYear(m0, y0, j))

\* ${m.date},${m.open},${m.close},${m.high},${m.low},${m.change}
\* for row j of company c
MonthlyLine(c, m0, y0, j, odd) ==
    RowLabel(m0, y0, j, odd) \o <<",">> \o
    NatToString(100 * c + j) \o <<".", "0", "0", ",">> \o
    NatToString(100 * c + j + 2) \o <<".", "5", "0", ",">> \o
    NatToString(100 * c + j + 4) \o <<".", "0", "0", ",">> \o
    NatToString(100 * c + j - 2) \o <<".", "0", "0", ",">> \o
    <<"2", ".", "4">> \o NatToString(j)

\* the lines written for company c
CompanyLines(c, incDate, m0, y0, n, odd) ==
    << <<"\"">> \o CompanyName(c) \o <<"\"", ",">> \o incDate \o SUMMARY_FIELDS,
       <<>>,
       BREAKDOWN_FOR \o CompanyName(c) \o <<":">>,
       BREAKDOWN_HEADER >>
    \o [j \in 1..n |-> MonthlyLine(c, m0, y0, j, odd)] \o << <<>> >>

RECURSIVE AllCompanyLines(_, _, _, _, _, _)
AllCompanyLines(incs, c, m0, y0, n, odd) ==
    IF c > Len(incs) THEN <<>>
    ELSE CompanyLines(c, IncorporationDates[incs[c]], m0, y0, n, odd)
         \o AllCompanyLines(incs, c + 1, m0, y0, n, odd)

\* the lines of the exported file of the upload u
FileLines(u) ==
    <<EXPORT_HEADER>> \o AllCompanyLines(u.incs, 1, u.m0, u.y0, u.n, u.odd)

\* sequences over 1..k of length 1..n
SeqsUpTo(k, n) == UNION {[1..len -> 1..k] : len \in 1..n}

\* the explored uploads: every period, with no odd row; the periods of the
\* first year with one odd row; companies with another date than D/M/YYYY
\* in the first period only
Uploads ==
    {u \in [m0 : 1..Len(monthNames), y0 : MinBatchYear..MaxBatchYear,
            n : 1..MaxRows, odd : 0..MaxRows,
            incs : SeqsUpTo(Len(IncorporationDates), MaxCompanies)] :
        /\ u.odd <= u.n
        /\ u.odd # 0 => u.y0 = MinBatchYear
        /\ (\E c \in 1..Len(u.incs) : u.incs[c] \notin WellFormedDates) =>
               (u.m0 = 1 /\ u.y0 = MinBatchYear)}

NoUpload == [m0 |-> 0, y0 |-> 0, n |-> 0, odd |-> 0, incs |-> <<>>]

\* no file chosen: numerologyFile is null
NoFile == <<Null>>

Days == 1..MaxDay
Months == 1..MaxMonth
Years == MinYear..MaxYear
RecentYears == MinRecentYear..MaxYear
\* the years of calculateLifePath's inputs: the recent ones, the year of the
\* documented example 02/07/1981, and the least and greatest digit sums
LifePathYears == RecentYears \cup {1981, 1000, 9999}
\* the incorporation years of the personal year / month inputs
IncorporationYears == {2000, MaxYear}
TargetYears == MinTargetYear..MaxTargetYear
Separators == {"/", "-"}

\* the three-letter tokens are explored with every year as "Mon YYYY" and
\* "Mon-YY"; the other tokens, and the form "Mon-YYYY", with one year
Labels ==
    {<<k, y, f>> \in (1..Len(MonthTokens)) \X TargetYears \X LabelForms :
        \/ Len(MonthTokens[k]) = 3 /\ f # "dash4"
        \/ Len(MonthTokens[k]) = 3 /\ y = MaxTargetYear
        \/ y = MaxTargetYear /\ f = "space"}

\* the exchanges asked for, and the symbols of the map /api/instruments
\* answers with for each
Exchanges == {"NSE", "BSE"}
ServerMap(exchange) == IF exchange = "NSE" THEN {"SBIN", "TCS"} ELSE {"SBIN"}
\* the symbols searched: ZOMATO is in no map and is known to the Upstox
\* search only
SearchedSymbols == {"SBIN", "TCS", "ZOMATO"}
\* the requests one session sends to /api/instruments
MaxLoadRequests == 3

\* an entry of instrumentCache: absent, or a map, held by its symbols
Unset == [present |-> FALSE, symbols |-> {}]
MapOf(symbols) == [present |-> TRUE, symbols |-> symbols]

NoResult == [call |-> "none", found |-> FALSE, symbols |-> {}]

\* const CACHE_DURATION = 86400000, in milliseconds
CACHE_DURATION == 86400000
\* Date.now() at the first request, the two steps of the server's clock, and
\* the time modelled: MaxHalfDays half days and MaxExtraMs milliseconds
StartTime == 100000000
HalfDay == 43200000
MaxHalfDays == 3
MaxExtraMs == 2
\* the requests answered
MaxGets == 4
\* the symbols of the maps loadInstrumentsFromFile can return
FileMaps == {{"SBIN", "TCS"}, {"SBIN", "TCS", "ZOMATO"}}
\* the symbols of the fallback of lines 74-80
Fallback == {"RELIANCE", "TCS", "HDFCBANK", "INFY", "ICICIBANK"}

NoResponse == [source |-> "none", symbols |-> {}]

\* private accessToken: string | null = null
NoToken == "null"
\* data.access_token of the answers of /api/auth/token
Tokens == {"token-1", "token-2"}
\* the authorization attempts of one session, and those in flight at once
MaxAttempts == 4
MaxPending == 2

\* type ChartInterval
ChartIntervals == {"days", "weeks", "months"}
\* the fetches one mounted chart issues
MaxFetches == 3
\* err.message of a fetch that failed, by the interval it was issued for
ErrorMessage(int) == "Failed to fetch data: " \o int

\* private minRequestInterval = 100, in milliseconds
minRequestInterval == 100
\* the step of the clock, in milliseconds, and the last time modelled
ClockStep == 50
MaxClock == 400
\* the concurrent callers of rateLimitedRequest
MaxCallers == 3
Callers == 1..MaxCallers

NoCall == [at |-> "idle", due |-> 0, started |-> 0]

\* one call of an engine function: the function, the components its
\* arguments were written from, the arguments, and the completion
VARIABLES pc, fn, inp, dateStr, label, ret

\* one run of processNumerology: the upload, the file, the position in the
\* handler, its locals, and the log
VARIABLES upload, numerologyFile, bpc, stocks, si, mi, lifePathNum, companyZodiac,
          outputRows, totalMonths, logs, downloaded

\* the text of the output table, as its lines, and the rows parseCSV reads
\* from a text
VARIABLES csvOutput, parsedRows

engineVars == <<pc, fn, inp, dateStr, label, ret>>

batchVars == <<upload, numerologyFile, bpc, stocks, si, mi, lifePathNum,
               companyZodiac, outputRows, totalMonths, logs, downloaded,
               csvOutput, parsedRows>>

\* one run of the reduction loop of lines 170-178: the total it was entered
\* with, the total now, the iterations made, and the position
VARIABLES loopStart, loopTotal, loopSteps, loopPc

loopVars == <<loopStart, loopTotal, loopSteps, loopPc>>

\* the market-data client's limiter: the time of Date.now(), the field
\* lastRequestTime, and each caller of rateLimitedRequest (its position, the
\* time its timer is due, the time its request started)
VARIABLES clock, lastRequestTime, callers

limiterVars == <<clock, lastRequestTime, callers>>

\* the StockChart component: its state (lines 134-141) and the fetches
\* loadChartData has issued, in the order of issue
VARIABLES loading, error, chartInterval, chartData, currentData, fetches

chartVars == <<loading, error, chartInterval, chartData, currentData, fetches>>

\* authorization in UpstoxConsole: the token of the shared client
\* (part_002 line 5), the component's flag and status line, the exchanges
\* in flight, the attempts made, and whether fetchStockData went past its
\* check of the token
VARIABLES accessToken, isConnected, authStatus, pendingExchanges, attempts, dataRequested

authVars == <<accessToken, isConnected, authStatus, pendingExchanges, attempts,
              dataRequested>>

authRest == <<isConnected, authStatus, pendingExchanges, attempts, dataRequested>>

\* the client's instrument cache (part_002 line 6), the number of requests
\* sent to /api/instruments, and what the last call returned
VARIABLES instrumentCache, loadRequests, returned

cacheVars == <<instrumentCache, loadRequests, returned>>

\* the /api/instruments route: the module's cache (route.ts lines 5-6),
\* Date.now() on the server, the requests answered, the calls of
\* loadInstrumentsFromFile, the outcome of the call the last request made,
\* and the last answer
VARIABLES cachedInstruments, cacheLoadTime, serverTime, requests, fileLoads,
          loadOutcome, response

routeVars == <<cachedInstruments, cacheLoadTime, serverTime, requests, fileLoads,
               loadOutcome, response>>

\* the state outside the engine call and the batch
serviceVars == <<loopVars, limiterVars, chartVars, authVars, cacheVars, routeVars>>

\* the state outside the reduction loop, and outside the limiter
notLoopVars == <<routeVars, engineVars, batchVars, limiterVars, chartVars, authVars, cacheVars>>
notLimiterVars == <<routeVars, engineVars, batchVars, loopVars, chartVars, authVars, cacheVars>>
notChartVars == <<routeVars, engineVars, batchVars, loopVars, limiterVars, authVars, cacheVars>>
notAuthVars == <<routeVars, engineVars, batchVars, loopVars, limiterVars, chartVars, cacheVars>>
\* the state outside the client (its token and its cache)
notClientVars == <<routeVars, engineVars, batchVars, loopVars, limiterVars, chartVars, authRest>>
notRouteVars == <<engineVars, batchVars, loopVars, limiterVars, chartVars, authVars, cacheVars>>

vars == <<engineVars, batchVars, serviceVars>>

NoInput ==
    [day |-> 0, month |-> 0, year |-> 0, short |-> FALSE,
     token |-> 0, tyear |-> 0, form |-> "none"]

NoReturn == [kind |-> "none", value |-> 0, local |-> 0]

EngineInit ==
    /\ pc = "idle"
    /\ fn = "none"
    /\ inp = NoInput
    /\ dateStr = <<>>
    /\ label = <<>>
    /\ ret = NoReturn

BatchInit ==
    /\ upload = NoUpload
    /\ numerologyFile = NoFile
    /\ bpc = "idle"
    /\ stocks = <<>>
    /\ si = 0
    /\ mi = 0
    /\ lifePathNum = 0
    /\ companyZodiac = ""
    /\ outputRows = <<>>
    /\ totalMonths = 0
    /\ logs = <<[kind |-> "initialized", stock |-> <<>>, date |-> <<>>]>>
    /\ downloaded = FALSE
    /\ csvOutput = <<>>
    /\ parsedRows = <<>>

LoopInit ==
    /\ loopStart = 0
    /\ loopTotal = 0
    /\ loopSteps = 0
    /\ loopPc = "idle"

\* no caller, and a first call finds lastRequestTime = 0 at least
\* minRequestInterval behind Date.now()
LimiterInit ==
    /\ clock = minRequestInterval
    /\ lastRequestTime = 0
    /\ callers = [c \in Callers |-> NoCall]

\* lines 134-141, before the effect of lines 246-248 has run
ChartInit ==
    /\ loading = TRUE
    /\ error = ""
    /\ chartInterval = "days"
    /\ chartData = "none"
    /\ currentData = "none"
    /\ fetches = <<>>

\* part_002 line 5 and UpstoxConsole.tsx lines 26-27, after the effect of
\* lines 48-71 has found no token and no code
AuthInit ==
    /\ accessToken = NoToken
    /\ isConnected = FALSE
    /\ authStatus = ""
    /\ pendingExchanges = 0
    /\ attempts = 0
    /\ dataRequested = FALSE

\* private instrumentCache: Record<string, any> = {}
CacheInit ==
    /\ instrumentCache = [exchange \in Exchanges |-> Unset]
    /\ loadRequests = 0
    /\ returned = NoResult

\* route.ts lines 5-6, at a time of the server's clock
RouteInit ==
    /\ cachedInstruments = Unset
    /\ cacheLoadTime = 0
    /\ serverTime = StartTime
    /\ requests = 0
    /\ fileLoads = 0
    /\ loadOutcome = "none"
    /\ response = NoResponse

Init ==
    /\ EngineInit /\ BatchInit /\ LoopInit /\ LimiterInit /\ ChartInit /\ AuthInit
    /\ CacheInit /\ RouteInit

CallLifePath ==
    /\ pc = "idle"
    /\ UNCHANGED <<batchVars, serviceVars>>
    /\ \E d \in Days, m \in Months, y \in LifePathYears, sep \in Separators,
          pad \in BOOLEAN, short \in BOOLEAN :
         /\ sep = "-" => ~pad
         /\ sep = "/" => ~short
         /\ inp' = [NoInput EXCEPT !.day = d, !.month = m, !.year = y, !.short = short]
         /\ dateStr' = DateText(d, m, y, sep, pad, short)
         /\ ret' = calculateLifePath(dateStr')
    /\ fn' = "calculateLifePath"
    /\ label' = <<>>
    /\ pc' = "done"

CallChineseZodiac ==
    /\ pc = "idle"
    /\ UNCHANGED <<batchVars, serviceVars>>
    /\ \E d \in Days, m \in Months, y \in Years, sep \in Separators :
         /\ sep = "-" => y \in RecentYears
         /\ inp' = [NoInput EXCEPT !.day = d, !.month = m, !.year = y]
         /\ dateStr' = DateText(d, m, y, sep, sep = "/", FALSE)
         /\ ret' = getChineseZodiac(dateStr')
    /\ fn' = "getChineseZodiac"
    /\ label' = <<>>
    /\ pc' = "done"

CallPersonalYear ==
    /\ pc = "idle"
    /\ UNCHANGED <<batchVars, serviceVars>>
    /\ \E d \in Days, m \in Months, y \in IncorporationYears, l \in Labels :
         /\ inp' = [day |-> d, month |-> m, year |-> y, short |-> FALSE,
                    token |-> l[1], tyear |-> l[2], form |-> l[3]]
         /\ dateStr' = DateText(d, m, y, "/", FALSE, FALSE)
         /\ label' = LabelText(l[1], l[2], l[3])
         /\ ret' = calculatePersonalYear(dateStr', label')
    /\ fn' = "calculatePersonalYear"
    /\ pc' = "done"

CallPersonalMonth ==
    /\ pc = "idle"
    /\ UNCHANGED <<batchVars, serviceVars>>
    /\ \E d \in Days, m \in Months, y \in IncorporationYears, l \in Labels :
         /\ inp' = [day |-> d, month |-> m, year |-> y, short |-> FALSE,
                    token |-> l[1], tyear |-> l[2], form |-> l[3]]
         /\ dateStr' = DateText(d, m, y, "/", FALSE, FALSE)
         /\ label' = LabelText(l[1], l[2], l[3])
         /\ ret' = calculatePersonalMonth(dateStr', label')
    /\ fn' = "calculatePersonalMonth"
    /\ pc' = "done"

\* the caller takes the result; the engine keeps no state between calls
Reset ==
    /\ pc = "done"
    /\ UNCHANGED <<batchVars, serviceVars>>
    /\ pc' = "idle"
    /\ fn' = "none"
    /\ inp' = NoInput
    /\ dateStr' = <<>>
    /\ label' = <<>>
    /\ ret' = NoReturn

Next ==
    \/ CallLifePath
    \/ CallChineseZodiac
    \/ CallPersonalYear
    \/ CallPersonalMonth
    \/ Reset

Spec == Init /\ [][Next]_vars

(***************************************************************************)
(* normalizeMonthYear on the labels "Mon YYYY", "Mon-YYYY" and "Mon-YY" of *)
(* every month token and every year of a century around the window.        *)
(***************************************************************************)
MinLabelYear == 1950

MaxLabelYear == 2049

CallNormalize ==
    /\ pc = "idle"
    /\ UNCHANGED <<batchVars, serviceVars>>
    /\ \E k \in 1..Len(MonthTokens), y \in MinLabelYear..MaxLabelYear, f \in LabelForms :
         /\ inp' = [NoInput EXCEPT !.token = k, !.tyear = y, !.form = f]
         /\ label' = LabelText(k, y, f)
         /\ ret' = Returned(normalizeMonthYear(label'), 0)
    /\ dateStr' = <<>>
    /\ fn' = "normalizeMonthYear"
    /\ pc' = "done"

LabelNext ==
    \/ CallNormalize
    \/ Reset

LabelSpec == Init /\ [][LabelNext]_vars

(***************************************************************************)
(* calculateLifePath on every arrangement of the digits of a year token.   *)
(***************************************************************************)
YearTokenLen == 4

\* the digits of the year tokens: those of 1981
YearDigits == {"1", "8", "9"}

YearTokens == [1..YearTokenLen -> YearDigits]

CallLifePathOnYear ==
    /\ pc = "idle"
    /\ UNCHANGED <<batchVars, serviceVars>>
    /\ \E d \in Days, m \in Months, ys \in YearTokens :
         /\ inp' = [NoInput EXCEPT !.day = d, !.month = m, !.year = parseInt(ys)]
         /\ dateStr' = NatToString(d) \o <<"/">> \o NatToString(m) \o <<"/">> \o ys
         /\ ret' = calculateLifePath(dateStr')
    /\ fn' = "calculateLifePath"
    /\ label' = <<>>
    /\ pc' = "done"

YearNext ==
    \/ CallLifePathOnYear
    \/ Reset

YearSpec == Init /\ [][YearNext]_vars

(***************************************************************************)
(* getChineseZodiac on the dates D-M-YY of every day, month and two-digit  *)
(* year.                                                                   *)
(***************************************************************************)
CallZodiacTwoDigitYear ==
    /\ pc = "idle"
    /\ UNCHANGED <<batchVars, serviceVars>>
    /\ \E d \in Days, m \in Months, y \in MinLabelYear..MaxLabelYear :
         /\ inp' = [NoInput EXCEPT !.day = d, !.month = m, !.year = y, !.short = TRUE]
         /\ dateStr' = DateText(d, m, y, "-", FALSE, TRUE)
         /\ ret' = getChineseZodiac(dateStr')
    /\ fn' = "getChineseZodiac"
    /\ label' = <<>>
    /\ pc' = "done"

TwoDigitNext ==
    \/ CallZodiacTwoDigitYear
    \/ Reset

TwoDigitSpec == Init /\ [][TwoDigitNext]_vars

(***************************************************************************)
(* The engine functions on arbitrary text: every string of at most         *)
(* MaxTextLen characters over a digit, the two separators and a letter.    *)
(***************************************************************************)
MaxTextLen == 5

TextChars == {"1", "/", "-", "x"}

Texts == UNION {[1..n -> TextChars] : n \in 0..MaxTextLen}

\* the month/year label of the calls of the personal year and month
TextLabel == <<"J", "a", "n", " ", "2", "0", "2", "4">>

\* a call of the engine function f on the text t, with completion r
CallOnText(f, t, r, l) ==
    /\ pc = "idle"
    /\ UNCHANGED <<batchVars, serviceVars>>
    /\ dateStr' = t
    /\ ret' = r
    /\ inp' = NoInput
    /\ label' = l
    /\ fn' = f
    /\ pc' = "done"

TextLifePath ==
    \E t \in Texts : CallOnText("calculateLifePath", t, calculateLifePath(t), <<>>)

TextChineseZodiac ==
    \E t \in Texts : CallOnText("getChineseZodiac", t, getChineseZodiac(t), <<>>)

TextPersonalYear ==
    \E t \in Texts :
        CallOnText("calculatePersonalYear", t, calculatePersonalYear(t, TextLabel),
                   TextLabel)

TextPersonalMonth ==
    \E t \in Texts :
        CallOnText("calculatePersonalMonth", t, calculatePersonalMonth(t, TextLabel),
                   TextLabel)

TextNext ==
    \/ TextLifePath
    \/ TextChineseZodiac
    \/ TextPersonalYear
    \/ TextPersonalMonth
    \/ Reset

TextSpec == Init /\ [][TextNext]_vars

(***************************************************************************)
(* processNumerology (UpstoxConsole.tsx lines 421-461), one step per       *)
(* company and per monthly row.                                            *)
(***************************************************************************)
Log(kind, stock, date) == [kind |-> kind, stock |-> stock, date |-> date]

\* the file input's onChange: setNumerologyFile(file)
UploadFile ==
    /\ bpc = "idle"
    /\ numerologyFile = NoFile
    /\ \E u \in Uploads :
         /\ upload' = u
         /\ numerologyFile' = FileLines(u)
    /\ UNCHANGED <<bpc, stocks, si, mi, lifePathNum, companyZodiac, outputRows,
                   totalMonths, logs, downloaded,
                   csvOutput, parsedRows>>
    /\ UNCHANGED <<engineVars, serviceVars>>

\* lines 422-430: no file, or the file parsed and the loop entered; an empty
\* parse raises 'No data', which line 460 logs
StartNumerology ==
    /\ bpc = "idle"
    /\ IF numerologyFile = NoFile
       THEN /\ logs' = Append(logs, Log("upload-csv", <<>>, <<>>))
            /\ bpc' = "done"
            /\ UNCHANGED <<stocks, si>>
       ELSE LET parsed == parseStockCSV(numerologyFile)
            IN /\ stocks' = parsed
               /\ IF Len(parsed) = 0
                  THEN /\ logs' = logs \o <<Log("start", <<>>, <<>>),
                                            Log("error", <<>>, <<>>)>>
                       /\ bpc' = "done"
                       /\ si' = si
                  ELSE /\ logs' = logs \o <<Log("start", <<>>, <<>>),
                                            Log("found", <<>>, <<>>)>>
                       /\ bpc' = "company"
                       /\ si' = 1
    /\ UNCHANGED <<upload, numerologyFile, mi, lifePathNum, companyZodiac, outputRows,
                   totalMonths, downloaded,
                   csvOutput, parsedRows>>
    /\ UNCHANGED <<engineVars, serviceVars>>

\* lines 432-436: the head of the loop over stocks.  A TypeError of
\* calculateLifePath is outside the inner try and ends the run at line 460.
NextCompany ==
    /\ bpc = "company"
    /\ si <= Len(stocks)
    /\ LET stockData == stocks[si]
           lp == calculateLifePath(stockData.incorporationDate)
       IN IF SkipsCompany(stockData.incorporationDate)
          THEN /\ logs' = Append(logs, Log("skipped", stockData.stock, <<>>))
               /\ si' = si + 1
               /\ UNCHANGED <<bpc, mi, lifePathNum, companyZodiac>>
          ELSE IF lp.kind = "throw"
          THEN /\ logs' = Append(logs, Log("error", <<>>, <<>>))
               /\ bpc' = "done"
               /\ UNCHANGED <<si, mi, lifePathNum, companyZodiac>>
          ELSE /\ lifePathNum' = lp.value
               /\ companyZodiac' = getChineseZodiac(stockData.incorporationDate).value
               /\ logs' = Append(logs, Log("processing", stockData.stock, <<>>))
               /\ mi' = 1
               /\ bpc' = "record"
               /\ si' = si
    /\ UNCHANGED <<upload, numerologyFile, stocks, outputRows, totalMonths, downloaded,
                   csvOutput, parsedRows>>
    /\ UNCHANGED <<engineVars, serviceVars>>

\* a call of lines 439-441 raises for the row
RecordThrows(incorporationDate, monthRow) ==
    \/ calculatePersonalYear(incorporationDate, monthRow.date).kind = "throw"
    \/ calculatePersonalMonth(incorporationDate, monthRow.date).kind = "throw"
    \/ getChineseZodiac(MonthZodiacDate(monthRow.date)).kind = "throw"

\* lines 437-445: one monthly row; the catch of line 444 logs a row for which
\* a call raised, and the loop goes on
NextRecord ==
    /\ bpc = "record"
    /\ mi <= Len(stocks[si].monthlyData)
    /\ LET stockData == stocks[si]
           monthRow == stockData.monthlyData[mi]
       IN IF RecordThrows(stockData.incorporationDate, monthRow)
          THEN /\ logs' = Append(logs, Log("record-error", stockData.stock, monthRow.date))
               /\ UNCHANGED <<outputRows, totalMonths>>
          ELSE /\ outputRows' = Append(outputRows,
                      OutputRow(stockData.stock, stockData.incorporationDate,
                                companyZodiac, lifePathNum, monthRow))
               /\ totalMonths' = totalMonths + 1
               /\ logs' = logs
    /\ mi' = mi + 1
    /\ UNCHANGED <<upload, numerologyFile, bpc, stocks, si, lifePathNum, companyZodiac,
                   downloaded,
                   csvOutput, parsedRows>>
    /\ UNCHANGED <<engineVars, serviceVars>>

\* the end of the inner loop: on to the next company
EndCompany ==
    /\ bpc = "record"
    /\ mi > Len(stocks[si].monthlyData)
    /\ si' = si + 1
    /\ bpc' = "company"
    /\ UNCHANGED <<upload, numerologyFile, stocks, mi, lifePathNum, companyZodiac,
                   outputRows, totalMonths, logs, downloaded,
                   csvOutput, parsedRows>>
    /\ UNCHANGED <<engineVars, serviceVars>>

\* lines 447-459: the count is logged, the table is written and downloaded
FinishNumerology ==
    /\ bpc = "company"
    /\ si > Len(stocks)
    /\ logs' = logs \o <<Log("calculated", <<>>, <<>>), Log("downloaded", <<>>, <<>>)>>
    /\ csvOutput' = CsvLines(outputRows)
    /\ downloaded' = TRUE
    /\ bpc' = "done"
    /\ UNCHANGED <<upload, numerologyFile, stocks, si, mi, lifePathNum, companyZodiac,
                   outputRows, totalMonths, parsedRows>>
    /\ UNCHANGED <<engineVars, serviceVars>>

BatchNext ==
    \/ UploadFile
    \/ StartNumerology
    \/ NextCompany
    \/ NextRecord
    \/ EndCompany
    \/ FinishNumerology

BatchSpec == Init /\ [][BatchNext]_vars

(***************************************************************************)
(* processNumerology as a function of the parsed blocks: the rows of the   *)
(* loops of lines 431-446, for the comparison of two runs.                 *)
(***************************************************************************)
\* the rows of one company (lines 437-445): a row for which a call raises
\* is left out
CompanyRows(stockData) ==
    LET lp == calculateLifePath(stockData.incorporationDate).value
        cz == getChineseZodiac(stockData.incorporationDate).value
        kept == SelectSeq(stockData.monthlyData,
                    LAMBDA monthRow : ~RecordThrows(stockData.incorporationDate, monthRow))
    IN [j \in 1..Len(kept) |->
           OutputRow(stockData.stock, stockData.incorporationDate, cz, lp, kept[j])]

RECURSIVE RowsFrom(_, _, _)
\* the loop of lines 431-446 from block c on, rows being those pushed so
\* far; completed is FALSE when calculateLifePath raises for a company
RowsFrom(blocks, c, rows) ==
    IF c > Len(blocks) THEN [completed |-> TRUE, rows |-> rows]
    ELSE IF SkipsCompany(blocks[c].incorporationDate)
    THEN RowsFrom(blocks, c + 1, rows)
    ELSE IF calculateLifePath(blocks[c].incorporationDate).kind = "throw"
    THEN [completed |-> FALSE, rows |-> rows]
    ELSE RowsFrom(blocks, c + 1, rows \o CompanyRows(blocks[c]))

\* lines 425-447 on the content of a file: 'No data' for an empty parse
RunOnFile(rawLines) ==
    LET blocks == parseStockCSV(rawLines)
    IN IF Len(blocks) = 0 THEN [completed |-> FALSE, rows |-> <<>>]
       ELSE RowsFrom(blocks, 1, <<>>)

(***************************************************************************)
(* The output table of arbitrary records: the text of lines 448-456 for    *)
(* lists of rows whose values are empty, hold a comma, or neither.         *)
(***************************************************************************)
MaxRecords == 2

\* values of the Stock column: a name as parseStockCSV leaves it, a name
\* with a comma
StockValues == {<<"\"", "S", "1", "\"">>, <<"A", ",", "B">>}

\* values of the number columns: a reduced number, NaN
NumberValues == {5, NaN}

\* values of the zodiac columns: a label, the undefined of an index out of
\* range
ZodiacValues == {"Rat", "undefined"}

\* values of the Change_% column: a number, the empty string of a missing
\* sixth field, a number written with a decimal comma
ChangeValues == {<<"2", ".", "4", "1">>, <<>>, <<"2", ",", "4">>}

CsvRecords ==
    {[Stock |-> st,
      Incorporation_Date |-> <<"1", "5", "/", "6", "/", "2", "0", "0", "0">>,
      Company_Chinese_Zodiac |-> "Dragon",
      Life_Path |-> 5,
      Month_Year |-> <<"J", "a", "n", " ", "2", "0", "2", "4">>,
      Month_Chinese_Zodiac |-> z,
      Personal_Year |-> 28,
      Personal_Month |-> num,
      Open |-> <<"1", "0", "1", ".", "0", "0">>,
      Close |-> <<"1", "0", "3", ".", "5", "0">>,
      High |-> <<"1", "0", "5", ".", "0", "0">>,
      Low |-> <<"9", "9", ".", "0", "0">>,
      Change_Pct |-> ch] :
        st \in StockValues, z \in ZodiacValues, num \in NumberValues,
        ch \in ChangeValues}

RecordLists == UNION {[1..n -> CsvRecords] : n \in 1..MaxRecords}

\* lines 448-456 on a list of rows
WriteTable ==
    /\ bpc = "idle"
    /\ \E rows \in RecordLists :
         /\ outputRows' = rows
         /\ csvOutput' = CsvLines(rows)
    /\ bpc' = "written"
    /\ UNCHANGED <<upload, numerologyFile, stocks, si, mi, lifePathNum, companyZodiac,
                   totalMonths, logs, downloaded, parsedRows>>
    /\ UNCHANGED <<engineVars, serviceVars>>

\* the written text is read back with parseCSV
ReadTable ==
    /\ bpc = "written"
    /\ parsedRows' = parseCSV(csvOutput)
    /\ bpc' = "read"
    /\ UNCHANGED <<upload, numerologyFile, stocks, si, mi, lifePathNum, companyZodiac,
                   outputRows, totalMonths, logs, downloaded, csvOutput>>
    /\ UNCHANGED <<engineVars, serviceVars>>

CsvNext ==
    \/ WriteTable
    \/ ReadTable

CsvSpec == Init /\ [][CsvNext]_vars

(***************************************************************************)
(* The reduction loop of lines 170-178 (218-226, 254-262), one iteration   *)
(* at a time.                                                              *)
(***************************************************************************)
\* the totals the loop is entered with
Totals == ((0 - MaxNegativeTotal)..MaxTotal) \cup {NaN}

\* line 171: if (masterNumbers.includes(total)) return total
EnterLoop ==
    /\ loopPc = "idle"
    /\ \E t \in Totals :
        /\ loopStart' = t
        /\ loopTotal' = t
        /\ loopPc' = IF t \in masterNumbers THEN "done" ELSE "loop"
    /\ loopSteps' = 0
    /\ UNCHANGED notLoopVars

\* lines 173-176: the condition holds, one iteration of the body
LoopStep ==
    /\ loopPc = "loop"
    /\ Gt(loopTotal, 9)
    /\ loopSteps < MaxLoopSteps
    /\ loopTotal' = DigitSumStep(loopTotal)
    /\ loopSteps' = loopSteps + 1
    /\ loopPc' = IF loopTotal' \in masterNumbers THEN "done" ELSE "loop"
    /\ UNCHANGED loopStart
    /\ UNCHANGED notLoopVars

\* lines 173 and 178: the condition fails, return total
LoopExit ==
    /\ loopPc = "loop"
    /\ ~Gt(loopTotal, 9)
    /\ loopPc' = "done"
    /\ UNCHANGED <<loopStart, loopTotal, loopSteps>>
    /\ UNCHANGED notLoopVars

LoopReset ==
    /\ loopPc = "done"
    /\ loopStart' = 0
    /\ loopTotal' = 0
    /\ loopSteps' = 0
    /\ loopPc' = "idle"
    /\ UNCHANGED notLoopVars

ReduceNext ==
    \/ EnterLoop
    \/ LoopStep
    \/ LoopExit
    \/ LoopReset

ReduceSpec == Init /\ [][ReduceNext]_vars

\* the loop runs synchronously: an iteration or the exit that can be taken
\* is taken
FairReduceSpec == ReduceSpec /\ WF_vars(LoopStep) /\ WF_vars(LoopExit)

(***************************************************************************)
(* UpstoxAPI.rateLimitedRequest (part_002 lines 21-33) under concurrent    *)
(* callers.  Calls made at one value of the clock are the calls a          *)
(* batch.map(...) of getWeeklyGainers issues before its Promise.all.       *)
(***************************************************************************)
\* time passes
Tick ==
    /\ clock + ClockStep <= MaxClock
    /\ clock' = clock + ClockStep
    /\ UNCHANGED <<lastRequestTime, callers>>
    /\ UNCHANGED notLimiterVars

\* lines 22-31 up to the await: a call that need not wait starts its
\* request at once, another sets a timer for the rest of the interval
Call(c) ==
    /\ callers[c].at = "idle"
    /\ LET now == clock
           timeSinceLastRequest == now - lastRequestTime
       IN IF timeSinceLastRequest < minRequestInterval
          THEN /\ callers' = [callers EXCEPT ![c] =
                      [at |-> "waiting",
                       due |-> now + (minRequestInterval - timeSinceLastRequest),
                       started |-> 0]]
               /\ UNCHANGED lastRequestTime
          ELSE /\ lastRequestTime' = clock
               /\ callers' = [callers EXCEPT ![c] =
                      [at |-> "started", due |-> 0, started |-> clock]]
    /\ UNCHANGED clock
    /\ UNCHANGED notLimiterVars

\* lines 31-32 after the await: the timer has fired, the request starts
Resume(c) ==
    /\ callers[c].at = "waiting"
    /\ clock >= callers[c].due
    /\ lastRequestTime' = clock
    /\ callers' = [callers EXCEPT ![c] =
           [at |-> "started", due |-> 0, started |-> clock]]
    /\ UNCHANGED clock
    /\ UNCHANGED notLimiterVars

LimiterNext ==
    \/ Tick
    \/ \E c \in Callers : Call(c)
    \/ \E c \in Callers : Resume(c)

LimiterSpec == Init /\ [][LimiterNext]_vars

(***************************************************************************)
(* StockChart.loadChartData (StockChart.tsx lines 157-248).  The data of   *)
(* a response is named by the interval it was requested for.               *)
(***************************************************************************)
\* lines 158-172: setLoading(true), setError(''), and the request is sent
IssueFetch(int) ==
    /\ loading' = TRUE
    /\ error' = ""
    /\ fetches' = Append(fetches, [interval |-> int, state |-> "pending"])

\* lines 246-248 on mount: the effect calls loadChartData
Mount ==
    /\ fetches = <<>>
    /\ IssueFetch(chartInterval)
    /\ UNCHANGED <<chartInterval, chartData, currentData>>
    /\ UNCHANGED notChartVars

\* line 343, then lines 245-248: another interval is chosen, loadChartData
\* is made anew and the effect calls it
ChangeInterval(int) ==
    /\ fetches # <<>>
    /\ Len(fetches) < MaxFetches
    /\ int # chartInterval
    /\ chartInterval' = int
    /\ IssueFetch(int)
    /\ UNCHANGED <<chartData, currentData>>
    /\ UNCHANGED notChartVars

\* lines 181-237: the response of fetch k arrives with candles
FetchSucceeds(k) ==
    /\ k <= Len(fetches)
    /\ fetches[k].state = "pending"
    /\ fetches' = [fetches EXCEPT ![k].state = "ok"]
    /\ chartData' = fetches[k].interval
    /\ currentData' = fetches[k].interval
    /\ loading' = FALSE
    /\ UNCHANGED <<error, chartInterval>>
    /\ UNCHANGED notChartVars

\* lines 174-186, 238-242: the response of fetch k is an error or is empty
FetchFails(k) ==
    /\ k <= Len(fetches)
    /\ fetches[k].state = "pending"
    /\ fetches' = [fetches EXCEPT ![k].state = "failed"]
    /\ error' = ErrorMessage(fetches[k].interval)
    /\ loading' = FALSE
    /\ UNCHANGED <<chartInterval, chartData, currentData>>
    /\ UNCHANGED notChartVars

\* the parent closes the chart and opens it again
Unmount ==
    /\ fetches # <<>>
    /\ \A k \in 1..Len(fetches) : fetches[k].state # "pending"
    /\ loading' = TRUE
    /\ error' = ""
    /\ chartInterval' = "days"
    /\ chartData' = "none"
    /\ currentData' = "none"
    /\ fetches' = <<>>
    /\ UNCHANGED notChartVars

ChartNext ==
    \/ Mount
    \/ \E int \in ChartIntervals : ChangeInterval(int)
    \/ \E k \in 1..MaxFetches : FetchSucceeds(k)
    \/ \E k \in 1..MaxFetches : FetchFails(k)
    \/ Unmount

ChartSpec == Init /\ [][ChartNext]_vars

(***************************************************************************)
(* Authorization in UpstoxConsole (UpstoxConsole.tsx lines 48-71, 121-151, *)
(* 219-223) on the shared client of part_002 line 690.                     *)
(***************************************************************************)
\* lines 57-68 and 122-131: a code arrives (from session storage or from the
\* popup) and is posted to /api/auth/token
StartExchange ==
    /\ attempts < MaxAttempts
    /\ pendingExchanges < MaxPending
    /\ attempts' = attempts + 1
    /\ pendingExchanges' = pendingExchanges + 1
    /\ UNCHANGED <<accessToken, isConnected, authStatus, dataRequested>>
    /\ UNCHANGED notAuthVars

\* lines 132-140: the answer is ok and holds an access token
ExchangeSucceeds(token) ==
    /\ pendingExchanges > 0
    /\ pendingExchanges' = pendingExchanges - 1
    /\ accessToken' = token
    /\ authStatus' = "Authenticated"
    /\ isConnected' = TRUE
    /\ UNCHANGED <<attempts, dataRequested>>
    /\ UNCHANGED notAuthVars

\* lines 141-150: the answer is not ok, holds no token, or the request
\* failed
ExchangeFails ==
    /\ pendingExchanges > 0
    /\ pendingExchanges' = pendingExchanges - 1
    /\ authStatus' = "Error"
    /\ isConnected' = FALSE
    /\ UNCHANGED <<accessToken, attempts, dataRequested>>
    /\ UNCHANGED notAuthVars

\* lines 219-223: fetchStockData goes on only with a token
FetchStockData ==
    /\ IF accessToken = NoToken
       THEN /\ authStatus' = "Please authenticate"
            /\ dataRequested' = FALSE
       ELSE /\ dataRequested' = TRUE
            /\ UNCHANGED authStatus
    /\ UNCHANGED <<accessToken, isConnected, pendingExchanges, attempts>>
    /\ UNCHANGED notAuthVars

\* lines 26-27 and 48-55: the component is mounted again in the same page,
\* the client keeps its token
Remount ==
    /\ pendingExchanges = 0
    /\ isConnected' = (accessToken # NoToken)
    /\ authStatus' = IF accessToken # NoToken THEN "Session restored" ELSE ""
    /\ dataRequested' = FALSE
    /\ UNCHANGED <<accessToken, pendingExchanges, attempts>>
    /\ UNCHANGED notAuthVars

AuthNext ==
    \/ StartExchange
    \/ \E token \in Tokens : ExchangeSucceeds(token)
    \/ ExchangeFails
    \/ FetchStockData
    \/ Remount

AuthSpec == Init /\ [][AuthNext]_vars

(***************************************************************************)
(* UpstoxAPI.loadInstruments and searchSymbol (part_002 lines 79-156).     *)
(***************************************************************************)
\* lines 80-102 as a function of the cache and of the answer: the map
\* returned, the entry of the cache afterwards, and whether a request was
\* sent
LoadResult(entry, exchange, ok) ==
    IF entry.present
    THEN [map |-> entry.symbols, entry |-> entry, sent |-> FALSE]
    ELSE IF ok
    THEN [map |-> ServerMap(exchange), entry |-> MapOf(ServerMap(exchange)), sent |-> TRUE]
    ELSE [map |-> {}, entry |-> entry, sent |-> TRUE]

\* part_002 lines 10-12
SetAccessToken(token) ==
    /\ accessToken' = token
    /\ UNCHANGED cacheVars
    /\ UNCHANGED notClientVars

\* lines 79-103: the request answers (ok) or fails
LoadInstruments(exchange, ok) ==
    LET r == LoadResult(instrumentCache[exchange], exchange, ok)
    IN /\ r.sent => loadRequests < MaxLoadRequests
       /\ instrumentCache' = [instrumentCache EXCEPT ![exchange] = r.entry]
       /\ loadRequests' = IF r.sent THEN loadRequests + 1 ELSE loadRequests
       /\ returned' = [call |-> "loadInstruments", found |-> FALSE, symbols |-> r.map]
       /\ UNCHANGED accessToken
       /\ UNCHANGED notClientVars

\* lines 109-156: the load answers or fails, and the Upstox search finds
\* the symbol or does not (apiResult)
SearchSymbol(symbol, exchange, ok, apiResult) ==
    LET r == LoadResult(instrumentCache[exchange], exchange, ok)
        instruments == r.map
    IN /\ r.sent => loadRequests < MaxLoadRequests
       /\ loadRequests' = IF r.sent THEN loadRequests + 1 ELSE loadRequests
       /\ IF symbol \in instruments
          THEN /\ instrumentCache' = [instrumentCache EXCEPT ![exchange] = r.entry]
               /\ returned' = [call |-> "searchSymbol", found |-> TRUE, symbols |-> {symbol}]
          ELSE IF accessToken # NoToken /\ apiResult
          THEN \* instruments[symbol] = apiResult; instrumentCache[exchange] = instruments
               /\ instrumentCache' = [instrumentCache EXCEPT ![exchange] =
                                          MapOf(instruments \cup {symbol})]
               /\ returned' = [call |-> "searchSymbol", found |-> TRUE, symbols |-> {symbol}]
          ELSE /\ instrumentCache' = [instrumentCache EXCEPT ![exchange] = r.entry]
               /\ returned' = [call |-> "searchSymbol", found |-> FALSE, symbols |-> {}]
       /\ UNCHANGED accessToken
       /\ UNCHANGED notClientVars

CacheNext ==
    \/ \E token \in Tokens : SetAccessToken(token)
    \/ \E exchange \in Exchanges, ok \in BOOLEAN : LoadInstruments(exchange, ok)
    \/ \E symbol \in SearchedSymbols, exchange \in Exchanges, ok \in BOOLEAN,
          apiResult \in BOOLEAN : SearchSymbol(symbol, exchange, ok, apiResult)

CacheSpec == Init /\ [][CacheNext]_vars

(***************************************************************************)
(* GET /api/instruments (route.ts lines 44-93).                            *)
(***************************************************************************)
\* NeedsLoad reloading already when exactly CACHE_DURATION has passed
NeedsLoad_AtDuration(cached, loadTime, now) ==
    ~cached.present \/ now - loadTime >= CACHE_DURATION

\* line 50: !cachedInstruments || Date.now() - cacheLoadTime > CACHE_DURATION
NeedsLoad(cached, loadTime, now) ==
    ~cached.present \/ now - loadTime > CACHE_DURATION

\* time passes on the server
AdvanceTime(d) ==
    /\ d = HalfDay => (serverTime - StartTime) \div HalfDay < MaxHalfDays
    /\ d = 1 => (serverTime - StartTime) % HalfDay < MaxExtraMs
    /\ serverTime' = serverTime + d
    /\ UNCHANGED <<cachedInstruments, cacheLoadTime, requests, fileLoads, loadOutcome,
                   response>>
    /\ UNCHANGED notRouteVars

\* lines 44-93: a request with or without the symbol parameter;
\* loadInstrumentsFromFile, if called, returns the map fileMap (fileOk) or
\* throws
GET(withSymbol, fileOk, fileMap) ==
    /\ requests < MaxGets
    /\ requests' = requests + 1
    /\ IF NeedsLoad(cachedInstruments, cacheLoadTime, serverTime)
       THEN /\ fileLoads' = fileLoads + 1
            /\ IF fileOk
               THEN /\ cachedInstruments' = MapOf(fileMap)
                    /\ cacheLoadTime' = serverTime
                    /\ loadOutcome' = "loaded"
               ELSE /\ loadOutcome' = "failed"
                    /\ UNCHANGED <<cachedInstruments, cacheLoadTime>>
       ELSE /\ loadOutcome' = "none"
            /\ UNCHANGED <<cachedInstruments, cacheLoadTime, fileLoads>>
    /\ response' =
          IF loadOutcome' = "failed"
          THEN [source |-> "fallback", symbols |-> Fallback]
          ELSE IF withSymbol
          THEN [source |-> "symbol", symbols |-> cachedInstruments'.symbols]
          ELSE [source |-> "local_file", symbols |-> cachedInstruments'.symbols]
    /\ UNCHANGED serverTime
    /\ UNCHANGED notRouteVars

RouteNext ==
    \/ \E d \in {1, HalfDay} : AdvanceTime(d)
    \/ \E withSymbol \in BOOLEAN, fileOk \in BOOLEAN, fileMap \in FileMaps :
          GET(withSymbol, fileOk, fileMap)

RouteSpec == Init /\ [][RouteNext]_vars

(***************************************************************************)
(* What the documentation states, computed from the components the input   *)
(* text was written from, by arithmetic.                                   *)
(***************************************************************************)
RECURSIVE DigitSum(_)
\* the sum of the decimal digits of n >= 0
DigitSum(n) == IF n < 10 THEN n ELSE (n % 10) + DigitSum(n \div 10)

MasterNumberSet == {11, 20, 22, 28, 33}

RECURSIVE ReduceWhileAbove9(_)
ReduceWhileAbove9(t) ==
    IF t > 9
    THEN IF DigitSum(t) \in MasterNumberSet THEN DigitSum(t)
         ELSE ReduceWhileAbove9(DigitSum(t))
    ELSE t

\* reduce(t) of the documentation
Reduce(t) == IF t \in MasterNumberSet THEN t ELSE ReduceWhileAbove9(t)

\* day + month + the sum of the digits of the year token
RawTotal == inp.day + inp.month + DigitSum(IF inp.short THEN inp.year % 100 ELSE inp.year)

LifePathDone == pc = "done" /\ fn = "calculateLifePath"

\* C1: calculateLifePath returns reduce(day + month + sum of the digits of the
\* year token) for every D/M/Y or D-M-Y date with numeric components.
C1_LifePathIsReduce ==
    LifePathDone => ret.kind = "return" /\ ret.value = Reduce(RawTotal)

\* witness of C1: a date whose total needs two reduction steps (29/12/1999:
\* 69 -> 15 -> 6) has been computed.
C1_Witness ==
    /\ LifePathDone
    /\ inp.day = 29 /\ inp.month = 12 /\ inp.year = 1999 /\ ~inp.short
    /\ ret.value = 6

\* C2: when the raw total day + month + year-digit-sum is itself one of
\* 11, 20, 22, 28, 33, calculateLifePath returns it unreduced.
C2_MasterShortCircuit ==
    (LifePathDone /\ RawTotal \in MasterNumberSet) =>
        ret.kind = "return" /\ ret.value = RawTotal

\* witness of C2: "02/07/1981" has raw total 28 and returns 28.
C2_Witness ==
    /\ LifePathDone
    /\ dateStr = <<"0", "2", "/", "0", "7", "/", "1", "9", "8", "1">>
    /\ RawTotal = 28
    /\ ret.value = 28

\* C3: for day in 1..31, month in 1..12 and a 4-digit year the life path is
\* one of 1..9, 11, 20, 22, 28, 33.
C3_LifePathRange ==
    ( /\ LifePathDone
      /\ inp.day \in 1..31 /\ inp.month \in 1..12
      /\ ~inp.short /\ inp.year \in 1000..9999 ) =>
        ret.kind = "return" /\ ret.value \in (1..9) \cup {11, 20, 22, 28, 33}

\* witness of C3: a date whose total first reduces to 10 (19 -> 10 -> 1).
C3_Witness ==
    /\ LifePathDone
    /\ ~inp.short /\ RawTotal = 19
    /\ ret.value = 1

PersonalDone == pc = "done" /\ fn \in {"calculatePersonalYear", "calculatePersonalMonth"}

\* the month number the label's token stands for (0: it names no month)
LabelMonth == TokenMonth(inp.token)

\* the year the label denotes: a two-digit year below 50 is 20YY, else 19YY
LabelYear ==
    IF inp.form = "dash2"
    THEN (IF inp.tyear % 100 < 50 THEN 2000 ELSE 1900) + (inp.tyear % 100)
    ELSE inp.tyear

ExpectedYearToUse == IF LabelMonth >= inp.month THEN LabelYear ELSE LabelYear - 1

\* C4: for a resolvable target month, the year whose digits are summed is
\* targetYear when targetMonth >= birthMonth and targetYear - 1 otherwise, in
\* calculatePersonalYear and in calculatePersonalMonth.
C4_YearToUseRule ==
    (PersonalDone /\ LabelMonth # 0) =>
        /\ ret.kind = "return"
        /\ LabelMonth >= inp.month => ret.local = LabelYear
        /\ LabelMonth < inp.month => ret.local = LabelYear - 1

\* witness of C4: incorporation 15/6/2000 with target "Jun 2024" uses 2024.
C4_Witness ==
    /\ pc = "done" /\ fn = "calculatePersonalYear"
    /\ dateStr = <<"1", "5", "/", "6", "/", "2", "0", "0", "0">>
    /\ label = <<"J", "u", "n", " ", "2", "0", "2", "4">>
    /\ ret.local = 2024

\* C5: calculatePersonalYear returns reduce(birthDay + birthMonth + digit sum
\* of yearToUse); the incorporation year plays no part.
C5_PersonalYearIsReduce ==
    (pc = "done" /\ fn = "calculatePersonalYear" /\ LabelMonth # 0) =>
        /\ ret.kind = "return"
        /\ ret.value = Reduce(inp.day + inp.month + DigitSum(ExpectedYearToUse))

\* witness of C5: 15/6/2000 with "May 2024": 15 + 6 + (2+0+2+3) = 28.
C5_Witness ==
    /\ pc = "done" /\ fn = "calculatePersonalYear"
    /\ inp.day = 15 /\ inp.month = 6 /\ inp.year = 2000
    /\ label = <<"M", "a", "y", " ", "2", "0", "2", "4">>
    /\ ret.value = 28

\* C6: calculatePersonalMonth returns reduce(birthDay + birthMonth +
\* targetMonth + digit sum of yearToUse), with the yearToUse of the personal year.
C6_PersonalMonthIsReduce ==
    (pc = "done" /\ fn = "calculatePersonalMonth" /\ LabelMonth # 0) =>
        /\ ret.kind = "return"
        /\ ret.value =
             Reduce(inp.day + inp.month + LabelMonth + DigitSum(ExpectedYearToUse))

\* witness of C6: 15/6/2000 with "May 2024": 15 + 6 + 5 + 7 = 33.
C6_Witness ==
    /\ pc = "done" /\ fn = "calculatePersonalMonth"
    /\ inp.day = 15 /\ inp.month = 6 /\ inp.year = 2000
    /\ label = <<"M", "a", "y", " ", "2", "0", "2", "4">>
    /\ ret.value = 33

\* C7: with a month token that is no key of the month-name table, both
\* calculatePersonalYear and calculatePersonalMonth fail (InvalidMonthName);
\* neither returns a number.
C7_InvalidMonthNameFails ==
    (PersonalDone /\ LabelMonth = 0) => ret.kind = "throw"

ZodiacDone == pc = "done" /\ fn = "getChineseZodiac"

\* the Lunar New Year <<year, month, day>> of a year of the table
NewYearOf(y) == CNY_ENTRIES[CHOOSE i \in 1..Len(CNY_ENTRIES) : CNY_ENTRIES[i][1] = y]

\* the effective Chinese year of the date d, m, y
ChineseYearOf(d, m, y) ==
    IF y \in 1930..2030
    THEN IF m < NewYearOf(y)[2] \/ (m = NewYearOf(y)[2] /\ d < NewYearOf(y)[3])
         THEN y - 1
         ELSE y
    ELSE y

\* the effective Chinese year of the date the input was written from
ExpectedChineseYear == ChineseYearOf(inp.day, inp.month, inp.year)

\* C8: the effective Chinese year is year - 1 exactly when the date is before
\* that year's Lunar New Year, and the Gregorian year when the year is not in
\* the table; 05/02/2024 gives Rabbit and 15/02/2024 gives Dragon.
C8_EffectiveYear ==
    ZodiacDone =>
        /\ ret.local = ExpectedChineseYear
        /\ (inp.day = 5 /\ inp.month = 2 /\ inp.year = 2024) => ret.value = "Rabbit"
        /\ (inp.day = 15 /\ inp.month = 2 /\ inp.year = 2024) => ret.value = "Dragon"

\* witness of C8: 05/02/2024, before the Lunar New Year of 10 February 2024.
C8_Witness ==
    /\ ZodiacDone
    /\ dateStr = <<"0", "5", "/", "0", "2", "/", "2", "0", "2", "4">>
    /\ ret.local = 2023
    /\ ret.value = "Rabbit"

ZodiacOrder ==
    <<"Rat", "Ox", "Tiger", "Rabbit", "Dragon", "Snake",
      "Horse", "Goat", "Monkey", "Rooster", "Dog", "Pig">>

\* C9: for day in 1..31, month in 1..12, year in 1930..2030 the result is the
\* element (effectiveYear - 1924) mod 12 of the list starting at Rat, always
\* one of the 12 labels, and the effective year 12 later has the same label.
C9_ZodiacLabel ==
    ( /\ ZodiacDone
      /\ inp.day \in 1..31 /\ inp.month \in 1..12 /\ inp.year \in 1930..2030 ) =>
        /\ ret.value = ZodiacOrder[((ExpectedChineseYear - 1924) % 12) + 1]
        /\ \E i \in 1..12 : ret.value = ZodiacOrder[i]
        /\ AnimalOf(ret.local + 12) = ret.value

\* witness of C9: 1 January 1930 has effective year 1929, the least of the
\* range, and is a Snake.
C9_Witness ==
    /\ ZodiacDone
    /\ inp.day = 1 /\ inp.month = 1 /\ inp.year = 1930
    /\ ret.value = "Snake"

\* C10: the Month_Chinese_Zodiac of a record labelled "<Mon> <YYYY>" is the
\* zodiac of day 15 of that month of YYYY, Lunar New Year adjustment included:
\* a label whose 15th is before that year's Lunar New Year has the label of
\* YYYY - 1.
C10_MonthZodiacOfFifteenth ==
    \A i \in 1..Len(outputRows) :
        \A m \in 1..12, y \in MinBatchYear..(MaxBatchYear + 1) :
            outputRows[i].Month_Year = MonthYearText(m, y) =>
                outputRows[i].Month_Chinese_Zodiac =
                    ZodiacOrder[((ChineseYearOf(15, m, y) - 1924) % 12) + 1]

(***************************************************************************)
(* The batch pipeline: what the documentation states of a finished run,    *)
(* in terms of the companies and rows the uploaded file was written from.  *)
(***************************************************************************)
\* processNumerology has run to its end on an uploaded file
BatchDone == bpc = "done" /\ upload # NoUpload

\* the companies of the upload, by position in the file
UploadCompanies == 1..Len(upload.incs)

\* the positions in IncorporationDates of the missing date and the sentinel
\* "Not Available"
SkippableDates == {4, 5}

\* the name of company c as the file holds it, quotes included
FileName(c) == <<"\"">> \o CompanyName(c) \o <<"\"">>

\* the number of log entries of a kind about a stock
LogCount(kind, stock) ==
    Cardinality({i \in 1..Len(logs) : logs[i].kind = kind /\ logs[i].stock = stock})

HasLog(kind) == \E i \in 1..Len(logs) : logs[i].kind = kind

\* the number of emitted records of a stock
RecordCount(stock) ==
    Cardinality({i \in 1..Len(outputRows) : outputRows[i].Stock = stock})

\* C11: a batch whose companies have a well-formed date, no date or the date
\* "Not Available", at least one of the latter two, completes without error;
\* each company without a date (or with "Not Available") has no record and
\* one skip log entry, and every other company has all its records.  A
\* batch of one such company has no record, a skip entry and no error.
C11_SkipsCompanyWithoutDate ==
    ( /\ BatchDone
      /\ \A c \in UploadCompanies : upload.incs[c] \in WellFormedDates \cup SkippableDates
      /\ \E c \in UploadCompanies : upload.incs[c] \in SkippableDates ) =>
        /\ ~HasLog("error")
        /\ HasLog("calculated")
        /\ \A c \in UploadCompanies :
             IF upload.incs[c] \in SkippableDates
             THEN /\ RecordCount(FileName(c)) = 0
                  /\ LogCount("skipped", FileName(c)) = 1
             ELSE RecordCount(FileName(c)) = upload.n


\* every company of the upload has a date D/M/YYYY
AllDatesWellFormed == \A c \in UploadCompanies : upload.incs[c] \in WellFormedDates

\* the label of the row with the odd month token
OddLabel == RowLabel(upload.m0, upload.y0, upload.odd, upload.odd)

\* C12: when the month token of one monthly row cannot be resolved, that
\* row of each company is absent from the output and logged with a reason,
\* the count is not incremented for it, and every other row is emitted.
C12_RecordIsolation ==
    (BatchDone /\ upload.odd # 0 /\ AllDatesWellFormed) =>
        /\ \A i \in 1..Len(outputRows) : outputRows[i].Month_Year # OddLabel
        /\ \A c \in UploadCompanies :
             /\ LogCount("record-error", FileName(c)) = 1
             /\ RecordCount(FileName(c)) = upload.n - 1
        /\ totalMonths = Len(upload.incs) * (upload.n - 1)

\* the position in IncorporationDates of the date for which
\* calculateLifePath raises
RaisingDates == {6}

\* C13: when calculateLifePath raises for one company of the batch, the
\* batch is not aborted: every company with a well-formed date has all its
\* records, the table is produced, and the log holds the final count and an
\* entry for the failure.
C13_CompanyIsolation ==
    ( /\ BatchDone
      /\ \A c \in UploadCompanies : upload.incs[c] \in WellFormedDates \cup RaisingDates
      /\ \E c \in UploadCompanies : upload.incs[c] \in RaisingDates ) =>
        /\ downloaded
        /\ HasLog("calculated")
        /\ HasLog("error") \/ HasLog("record-error") \/ HasLog("skipped")
        /\ \A c \in UploadCompanies :
             upload.incs[c] \in WellFormedDates => RecordCount(FileName(c)) >= upload.n

\* C14: on every text, with fewer than three separated parts or not, each of
\* calculateLifePath, getChineseZodiac, calculatePersonalYear and
\* calculatePersonalMonth returns normally; none raises.
C14_NoEngineFunctionRaises ==
    (pc = "done" /\ inp = NoInput) => ret.kind = "return"

\* the (company, month label) pairs of company c of the upload, in the
\* order of the file, without the row whose month token is odd
CompanyPairs(c) ==
    [k \in 1..(IF upload.odd = 0 THEN upload.n ELSE upload.n - 1) |->
        LET j == IF upload.odd # 0 /\ k >= upload.odd THEN k + 1 ELSE k
        IN <<FileName(c), RowLabel(upload.m0, upload.y0, j, 0)>>]

RECURSIVE RetainedPairs(_)
\* the pairs of the companies from c on that have a date other than
\* "Not Available"
RetainedPairs(c) ==
    IF c > Len(upload.incs) THEN <<>>
    ELSE (IF upload.incs[c] \in SkippableDates THEN <<>> ELSE CompanyPairs(c))
         \o RetainedPairs(c + 1)

\* the emitted records, projected to (company, month label)
EmittedPairs == [i \in 1..Len(outputRows) |-> <<outputRows[i].Stock, outputRows[i].Month_Year>>]

\* C15: the emitted records, projected to (company, month label), are the
\* (company, monthly record) pairs of the file, companies without a date and
\* failed records left out, in the order of the file: none duplicated,
\* none moved to another company.
C15_OutputOrder ==
    ( /\ BatchDone
      /\ \A c \in UploadCompanies : upload.incs[c] \in WellFormedDates \cup SkippableDates ) =>
        EmittedPairs = RetainedPairs(1)

(***************************************************************************)
(* The output table: what the documentation states of its text.            *)
(***************************************************************************)
\* the header line of the table
ColumnNamesLine ==
    <<"S", "t", "o", "c", "k", ",",
      "I", "n", "c", "o", "r", "p", "o", "r", "a", "t", "i", "o", "n", "_", "D", "a", "t", "e", ",",
      "C", "o", "m", "p", "a", "n", "y", "_", "C", "h", "i", "n", "e", "s", "e", "_", "Z", "o", "d", "i", "a", "c", ",",
      "L", "i", "f", "e", "_", "P", "a", "t", "h", ",",
      "M", "o", "n", "t", "h", "_", "Y", "e", "a", "r", ",",
      "M", "o", "n", "t", "h", "_", "C", "h", "i", "n", "e", "s", "e", "_", "Z", "o", "d", "i", "a", "c", ",",
      "P", "e", "r", "s", "o", "n", "a", "l", "_", "Y", "e", "a", "r", ",",
      "P", "e", "r", "s", "o", "n", "a", "l", "_", "M", "o", "n", "t", "h", ",",
      "O", "p", "e", "n", ",", "C", "l", "o", "s", "e", ",", "H", "i", "g", "h", ",",
      "L", "o", "w", ",", "C", "h", "a", "n", "g", "e", "_", "%">>

ColumnCount == 13

\* the commas of a line that are not between double quotes
SeparatingCommas(line) ==
    {j \in 1..Len(line) :
        /\ line[j] = ","
        /\ Cardinality({i \in 1..(j - 1) : line[i] = "\""}) % 2 = 0}

RECURSIVE ColumnsFrom(_, _, _)
\* the columns of a line from character i on, seps being the separating
\* commas from i on
ColumnsFrom(line, i, seps) ==
    IF seps = {} THEN <<SubSeq(line, i, Len(line))>>
    ELSE LET j == CHOOSE j \in seps : \A k \in seps : j <= k
         IN <<SubSeq(line, i, j - 1)>> \o ColumnsFrom(line, j + 1, seps \ {j})

Columns(line) == ColumnsFrom(line, 1, SeparatingCommas(line))

Quoted(text) == <<"\"">> \o text \o <<"\"">>

\* the value of column k of a row as text: the string, the decimal number, the
\* animal name; a value with a comma between double quotes
ColumnText(row, k) ==
    LET val == RowValue(row, k)
        text == IF k \in ZodiacColumns THEN AnimalText(val)
                ELSE IF k \in NumberColumns THEN toString(val)
                ELSE val
    IN IF Includes(text, ",") THEN Quoted(text) ELSE text

\* the table has been written
TableWritten == Len(csvOutput) > 0

TableRead == bpc = "read"

Chars_Open == <<"O", "p", "e", "n">>

Chars_Close == <<"C", "l", "o", "s", "e">>

Chars_High == <<"H", "i", "g", "h">>

Chars_Low == <<"L", "o", "w">>

Chars_Change == <<"C", "h", "a", "n", "g", "e", "_", "%">>

\* C17: the table written for a list of records and read back with parseCSV
\* has one row for each record, with the Open, Close, High, Low and Change_%
\* of the record, also when a value of the record is empty.
C17_RoundTrip ==
    TableRead =>
        /\ Len(parsedRows) = Len(outputRows)
        /\ \A i \in 1..Len(parsedRows) :
             /\ parsedRows[i][Chars_Open] = outputRows[i].Open
             /\ parsedRows[i][Chars_Close] = outputRows[i].Close
             /\ parsedRows[i][Chars_High] = outputRows[i].High
             /\ parsedRows[i][Chars_Low] = outputRows[i].Low
             /\ parsedRows[i][Chars_Change] = outputRows[i].Change_Pct

(***************************************************************************)
(* normalizeMonthYear: what the documentation states.                      *)
(***************************************************************************)
NormalizeDone == pc = "done" /\ fn = "normalizeMonthYear"

\* the month token of the label
LabelToken == MonthTokens[inp.token]

\* C18: a label "Mon YYYY" is returned as it is, and for a label of any of
\* the three forms normalizing the result again gives the same result.
C18_NormalizeIdempotent ==
    NormalizeDone =>
        /\ inp.form = "space" => ret.value = label
        /\ normalizeMonthYear(ret.value) = ret.value

\* witness of C18: "Mar-49" gives "Mar 2049", which is a label "Mon YYYY".
C18_Witness ==
    /\ NormalizeDone
    /\ label = <<"M", "a", "r", "-", "4", "9">>
    /\ ret.value = <<"M", "a", "r", " ", "2", "0", "4", "9">>
    /\ normalizeMonthYear(ret.value) = <<"M", "a", "r", " ", "2", "0", "4", "9">>

\* the year a two-digit year YY stands for: 20YY below 50, 19YY otherwise
WindowedYear(yy) == IF yy < 50 THEN 2000 + yy ELSE 1900 + yy

\* C19: "P-YY" gives "P 20YY" when YY is below 50 and "P 19YY" otherwise;
\* "Mar-49" gives "Mar 2049" and "Mar-50" gives "Mar 1950"; a label without
\* '-' is returned unchanged.
C19_TwoDigitWindow ==
    NormalizeDone =>
        /\ inp.form = "dash2" =>
             ret.value = LabelToken \o <<" ">> \o NatToString(WindowedYear(inp.tyear % 100))
        /\ label = <<"M", "a", "r", "-", "4", "9">> =>
             ret.value = <<"M", "a", "r", " ", "2", "0", "4", "9">>
        /\ label = <<"M", "a", "r", "-", "5", "0">> =>
             ret.value = <<"M", "a", "r", " ", "1", "9", "5", "0">>
        /\ ~Includes(label, "-") => ret.value = label

\* witness of C19: "Mar-50", the least two-digit year of the century 19.
C19_Witness ==
    /\ NormalizeDone
    /\ inp.form = "dash2"
    /\ label = <<"M", "a", "r", "-", "5", "0">>
    /\ ret.value = <<"M", "a", "r", " ", "1", "9", "5", "0">>

(***************************************************************************)
(* The life path and the arrangement of the year's digits.                 *)
(***************************************************************************)
\* the year token of the date of the call
YearToken == DateParts(dateStr)[3]

\* the date of the call with another year token
WithYear(ys) ==
    NatToString(inp.day) \o <<"/">> \o NatToString(inp.month) \o <<"/">> \o ys

\* the number of places of a token that hold the digit c
Occurrences(ys, c) == Cardinality({i \in 1..Len(ys) : ys[i] = c})

RECURSIVE SortedFrom(_, _)
\* the digits of a token from the k-th digit of 0..9 on, in increasing order
SortedFrom(ys, k) ==
    IF k > Len(DigitChars) THEN <<>>
    ELSE [i \in 1..Occurrences(ys, DigitChars[k]) |-> DigitChars[k]]
         \o SortedFrom(ys, k + 1)

\* the arrangement in increasing order of the digits of a token: the same
\* for two tokens exactly when they have the same digits
SortedDigits(ys) == SortedFrom(ys, 1)

\* C20: for a fixed day and month, year tokens with the same digits in any
\* arrangement give the same life-path number: each token gives the number
\* of the increasing arrangement of its digits; 1981, 1891 and 8911 give the
\* same number.
C20_YearDigitsOnly ==
    (LifePathDone /\ Len(DateParts(dateStr)) = 3 /\ YearToken \in YearTokens) =>
        /\ calculateLifePath(WithYear(SortedDigits(YearToken))) = ret
        /\ YearToken = <<"1", "9", "8", "1">> =>
             /\ calculateLifePath(WithYear(<<"1", "8", "9", "1">>)).value = ret.value
             /\ calculateLifePath(WithYear(<<"8", "9", "1", "1">>)).value = ret.value

\* witness of C20: 2/7/8911, whose digits are those of 1981, has the life
\* path 28 of 2/7/1981.
C20_Witness ==
    /\ LifePathDone
    /\ inp.day = 2 /\ inp.month = 7
    /\ YearToken = <<"8", "9", "1", "1">>
    /\ ret.value = 28
    /\ calculateLifePath(WithYear(<<"1", "9", "8", "1">>)).value = 28

(***************************************************************************)
(* The zodiac of a date with a two-digit year.                             *)
(***************************************************************************)
\* C21: for a date D-M-YY, getChineseZodiac returns the label of D-M-YYYY
\* with YYYY = 2000 + YY when YY < 50 and 1900 + YY otherwise.
C21_ZodiacWindowsTwoDigitYear ==
    (ZodiacDone /\ inp.short) =>
        ret.value =
            ZodiacOrder[((ChineseYearOf(inp.day, inp.month,
                                        WindowedYear(inp.year % 100)) - 1924) % 12) + 1]

(***************************************************************************)
(* parseStockCSV: the blocks read from the uploaded file.                  *)
(***************************************************************************)
\* the file has been parsed
FileParsed == upload # NoUpload /\ bpc # "idle"

\* the Open of row j of company c, as the file holds it
FileOpen(c, j) == NatToString(100 * c + j) \o <<".", "0", "0">>

\* C22: every monthly row of the file is in the block of the company whose
\* line most recently precedes it, whatever the date field of that line
\* holds: the blocks are those of the companies of the file in order, each
\* with its own rows and no row of another company.
C22_RowsStayWithTheirCompany ==
    FileParsed =>
        /\ Len(stocks) = Len(upload.incs)
        /\ \A c \in 1..Len(stocks) :
             /\ stocks[c].stock = FileName(c)
             /\ stocks[c].incorporationDate = IncorporationDates[upload.incs[c]]
             /\ Len(stocks[c].monthlyData) = upload.n
             /\ \A j \in 1..Len(stocks[c].monthlyData) :
                  stocks[c].monthlyData[j].open = FileOpen(c, j)

(***************************************************************************)
(* The values of an emitted record.                                        *)
(***************************************************************************)
RECURSIVE InputRecordsFrom(_)
\* the monthly records of the companies from block c on, in order, each with
\* the incorporation date of its company
InputRecordsFrom(c) ==
    IF c > Len(stocks) THEN <<>>
    ELSE [j \in 1..Len(stocks[c].monthlyData) |->
             [stock |-> stocks[c].stock, incorporationDate |-> stocks[c].incorporationDate,
              monthRow |-> stocks[c].monthlyData[j]]]
         \o InputRecordsFrom(c + 1)

InputRecords == InputRecordsFrom(1)

\* C23: every emitted record has the life path and the zodiac of its company's
\* incorporation date, the same on all records of the company, the personal
\* year and personal month of that date and the record's month label, and
\* the Open, Close, High, Low and Change_% of its input record.
C23_RecordValues ==
    /\ Len(outputRows) <= Len(InputRecords)
    /\ \A i \in 1..Len(outputRows) :
         LET row == outputRows[i]
             in == InputRecords[i]
         IN /\ row.Stock = in.stock
            /\ row.Incorporation_Date = in.incorporationDate
            /\ row.Life_Path = calculateLifePath(in.incorporationDate).value
            /\ row.Company_Chinese_Zodiac = getChineseZodiac(in.incorporationDate).value
            /\ row.Personal_Year =
                 calculatePersonalYear(in.incorporationDate, in.monthRow.date).value
            /\ row.Personal_Month =
                 calculatePersonalMonth(in.incorporationDate, in.monthRow.date).value
            /\ row.Open = in.monthRow.open
            /\ row.Close = in.monthRow.close
            /\ row.High = in.monthRow.high
            /\ row.Low = in.monthRow.low
            /\ row.Change_Pct = in.monthRow.changePct
    /\ \A i, j \in 1..Len(outputRows) :
         outputRows[i].Stock = outputRows[j].Stock =>
             /\ outputRows[i].Life_Path = outputRows[j].Life_Path
             /\ outputRows[i].Company_Chinese_Zodiac = outputRows[j].Company_Chinese_Zodiac

\* witness of C23: two companies of two rows, 15/6/2000 (life path 5, Dragon)
\* and 02/07/1981 (life path 28, Rooster), four records emitted.
C23_Witness ==
    /\ BatchDone
    /\ upload.incs = <<1, 2>>
    /\ Len(outputRows) = 4
    /\ outputRows[2].Life_Path = 5 /\ outputRows[2].Company_Chinese_Zodiac = "Dragon"
    /\ outputRows[3].Life_Path = 28 /\ outputRows[3].Company_Chinese_Zodiac = "Rooster"
    /\ outputRows[3].Open = FileOpen(2, 1)
    /\ outputRows[4].Open = FileOpen(2, 2)

(***************************************************************************)
(* The batch and the order of its companies.                               *)
(***************************************************************************)
\* the orders in which n companies can be written
Orders(n) == {p \in [1..n -> 1..n] : \A a, b \in 1..n : p[a] = p[b] => a = b}

RECURSIVE CompanyLinesIn(_, _, _)
\* the lines of the companies of the upload u written in the order p, from
\* place k on; each company keeps its name, its date and its rows
CompanyLinesIn(u, p, k) ==
    IF k > Len(u.incs) THEN <<>>
    ELSE CompanyLines(p[k], IncorporationDates[u.incs[p[k]]], u.m0, u.y0, u.n, u.odd)
         \o CompanyLinesIn(u, p, k + 1)

\* the file of the upload u with its companies in the order p
FileLinesIn(u, p) == <<EXPORT_HEADER>> \o CompanyLinesIn(u, p, 1)

\* the number of times a record occurs in a sequence of records
TimesIn(rows, r) == Cardinality({i \in 1..Len(rows) : rows[i] = r})

\* two sequences hold the same records the same number of times
SameRecords(a, b) ==
    /\ Len(a) = Len(b)
    /\ \A i \in 1..Len(a) : TimesIn(a, a[i]) = TimesIn(b, a[i])

\* C24: the companies of the batch written in any other order give, for
\* each company, the same records, and the same final count.
C24_OrderIndependent ==
    BatchDone =>
        \A p \in Orders(Len(upload.incs)) :
            LET other == RunOnFile(FileLinesIn(upload, p))
            IN /\ other.completed = downloaded
               /\ downloaded =>
                    /\ SameRecords(other.rows, outputRows)
                    /\ Len(other.rows) = totalMonths

(***************************************************************************)
(* Termination of the reduction loop.                                      *)
(***************************************************************************)
\* an iteration from a total that is a number and not negative leaves a
\* smaller total that is not negative
StepDecreases ==
    (loopPc = "loop" /\ loopSteps' = loopSteps + 1 /\ loopTotal # NaN /\ loopTotal >= 0) =>
        (loopTotal' # NaN /\ 0 <= loopTotal' /\ loopTotal' < loopTotal)

\* C25: the reduction loop ends for every total it is entered with: an
\* iteration is made only from a total above 9 and, from a total that is
\* not negative, leaves a smaller one; from NaN no iteration is made; and
\* every run of the loop reaches its return.
C25_LoopTerminates ==
    /\ [][StepDecreases]_vars
    /\ [](loopStart = NaN => loopSteps = 0)
    /\ [](loopSteps < MaxLoopSteps)
    /\ (loopPc = "loop") ~> (loopPc = "done")

\* 199 -> 19 -> 10 -> 1
C25_Witness ==
    /\ loopPc = "done"
    /\ loopStart = 199
    /\ loopSteps = 3
    /\ loopTotal = 1

(***************************************************************************)
(* The rate limit of the market-data client.                               *)
(***************************************************************************)
Started(c) == callers[c].at = "started"

\* C26: any two requests started through rateLimitedRequest start at least
\* minRequestInterval apart.
C26_RequestsSpaced ==
    \A c, d \in Callers :
        (c # d /\ Started(c) /\ Started(d)) =>
            \/ callers[c].started - callers[d].started >= minRequestInterval
            \/ callers[d].started - callers[c].started >= minRequestInterval

(***************************************************************************)
(* The chart and the current selection.                                    *)
(***************************************************************************)
Outstanding == {k \in 1..Len(fetches) : fetches[k].state = "pending"}

LatestFetch == fetches[Len(fetches)]

\* C27: once no fetch is outstanding the chart shows the outcome of the
\* fetch issued for the latest selection (its data and no error, or its
\* error), and loading is false only when no fetch is outstanding.
C27_ShowsLatestSelection ==
    /\ (fetches # <<>> /\ Outstanding = {}) =>
          /\ LatestFetch.interval = chartInterval
          /\ LatestFetch.state = "ok" =>
                /\ chartData = chartInterval
                /\ currentData = chartInterval
                /\ error = ""
          /\ LatestFetch.state = "failed" => error = ErrorMessage(chartInterval)
    /\ ~loading => Outstanding = {}

(***************************************************************************)
(* The connection flag and the token of the client.                        *)
(***************************************************************************)
\* C28: isConnected is true exactly when the shared client holds an access
\* token.
C28_ConnectedIffToken == isConnected <=> (accessToken # NoToken)

(***************************************************************************)
(* The instrument cache of the client.                                     *)
(***************************************************************************)
\* C29: an entry of instrumentCache is absent or holds at least the map a
\* successful load of /api/instruments returns for its exchange.
C29_CacheHoldsLoadedMap ==
    \A exchange \in Exchanges :
        instrumentCache[exchange].present =>
            ServerMap(exchange) \subseteq instrumentCache[exchange].symbols

(***************************************************************************)
(* The instrument cache of the server.                                     *)
(***************************************************************************)
\* the cache is filled and not older than CACHE_DURATION
CacheFresh == cachedInstruments.present /\ serverTime - cacheLoadTime <= CACHE_DURATION

\* a request whose load failed is answered with the fallback and leaves the
\* cache as it was, so that the next request loads again
FailedLoadLeavesCache ==
    (requests' = requests + 1 /\ loadOutcome' = "failed") =>
        /\ response' = [source |-> "fallback", symbols |-> Fallback]
        /\ Cardinality(response'.symbols) = 5
        /\ cachedInstruments' = cachedInstruments
        /\ cacheLoadTime' = cacheLoadTime
        /\ ~CacheFresh'

\* a request made while the cache is fresh is answered from it without a load
FreshCacheServes ==
    (requests' = requests + 1 /\ CacheFresh) =>
        /\ fileLoads' = fileLoads
        /\ loadOutcome' = "none"
        /\ cachedInstruments' = cachedInstruments
        /\ cacheLoadTime' = cacheLoadTime
        /\ response'.symbols = cachedInstruments.symbols
        /\ response'.source # "fallback"

\* C30: when the load of instruments.json fails the handler answers with the
\* fallback of 5 entries and leaves cachedInstruments and cacheLoadTime
\* unchanged, and the next request loads again; after a successful load the
\* requests of the next 24 hours are answered from the cache without a
\* load.
C30_FallbackNeverCached == [][FailedLoadLeavesCache /\ FreshCacheServes]_vars

\* a cache filled earlier has expired and the load of this request failed
C30_Witness ==
    /\ loadOutcome = "failed"
    /\ response.source = "fallback"
    /\ cachedInstruments.present
    /\ serverTime - cacheLoadTime > CACHE_DURATION
    /\ fileLoads = 2

=============================================================================
